---- MODULE Spec2Model ----
(***************************************************************************)
(* Race-rules state machine of the sailing game (GameState.Update and its  *)
(* helpers isWithinLineBounds, updateMarkRounding, checkFinishLineCrossing *)
(* together with NewGame and Boat.GetBowPosition / Boat.Update).           *)
(*                                                                         *)
(* Discretisation.  The program computes with float64 coordinates, float64 *)
(* headings and time.Duration.  Here                                       *)
(*   - coordinates are integers counting 1/Scale metre, so that the one    *)
(*     metre hysteresis band of the mark is Scale grid units wide;         *)
(*   - the course built by NewGame is drawn small (LineHalfLength,         *)
(*     MarkDistance, StartDistance replace 200 m, 620 m and 180 m) and the *)
(*     boat is kept inside a finite window around it;                      *)
(*   - the heading is turned by a quarter circle per key press instead of  *)
(*     one degree, and sin/cos are rounded to -1, 0, 1;                    *)
(*   - durations are seconds; the delta between two ticks is 0 or          *)
(*     TickDelta, and no tick runs past MaxElapsed;                        *)
(*   - the polar speed of a tick is an input of the tick;                  *)
(*   - a time.Time field is kept as its distance to the clock of the       *)
(*     latest frame, which is the only way the program reads it            *)
(*     (now.Sub(lastUpdateTime), now.Sub(phaseStartTime));                 *)
(*   - wind directions and shift angles are whole degrees, the             *)
(*     interpolation of a shift is rounded down, and the random draws of   *)
(*     the wind are inputs taken from small sets;                          *)
(*   - wind and boat speeds of the polar table count 1/(100 * CentiKnot)   *)
(*     knot and its angles tenths of a degree; every interpolation is      *)
(*     rounded down, and 1000 * cos of a whole degree is read from a       *)
(*     table.                                                              *)
(* Spec follows the race rules and the clock, with the boat in the lane    *)
(* between the pin and the upwind mark; SpecAtOnce follows the race rules  *)
(* over the whole window in frames that take no time.  The wind reaches    *)
(* them only through the polar speed and is not advanced there.  SpecWind  *)
(* follows the wind of OscillatingWind as well, with a becalmed boat left  *)
(* alone.                                                                  *)
(* SpecSailing follows Boat.Update in the wind field, with the speed of    *)
(* RealisticPolar, for boats set on the headings and in the winds of the   *)
(* polar table.  SpecWindTicking is SpecWind with frames that keep coming  *)
(* while the game runs.  SpecScoreboard follows the Scoreboard, the calls  *)
(* of the game to it and the callbacks of its backend requests; a player   *)
(* name is at most MaxNameLen characters long and at most MaxInFlight      *)
(* requests wait for their callback; the entries of the leaderboard are    *)
(* kept by their origin only.                                              *)
(* Rendering, camera, banners and touch input are left out.                *)
(***************************************************************************)
EXTENDS Integers, FiniteSets, Sequences, TLC

VARIABLES
    Boat,               \* [Pos |-> [X, Y], Heading, Speed]
    ArenaMarks,         \* Arena.Marks, the positions of the marks
    Wind,               \* the OscillatingWind
    isPaused,
    sinceLastUpdate,    \* the clock of the latest frame minus lastUpdateTime
    elapsedTime,
    raceStarted,
    raceTimer,
    isOCS,
    hasCrossedLine,
    lineCrossingTime,
    secondsLate,
    vmgAtCrossing,
    speedPercentage,
    prevBowPos,
    markRoundingPhase1,
    markRoundingPhase2,
    markRoundingPhase3,
    markRounded,
    raceFinished,
    finishTime,
    seenEastNorth,      \* history: a rounding check saw the boat north and east of the mark
    seenEastThenWest,   \* history: ... and a later one saw it north and west of the mark
    Scoreboard,         \* the Scoreboard
    firebaseReady,      \* FirebaseClient.isReady
    inFlight,           \* per kind of request, the backend calls whose callback is due
    IsWASM,             \* what IsWASM() returns in this build
    hiddenByHide        \* history: Hide was called and no Show, ShowLeaderboardOnly
                        \* or ShowWithTopCheck since

vars == <<Boat, ArenaMarks, Wind, isPaused, sinceLastUpdate,
          elapsedTime, raceStarted, raceTimer, isOCS,
          hasCrossedLine, lineCrossingTime, secondsLate,
          vmgAtCrossing, speedPercentage, prevBowPos,
          markRoundingPhase1, markRoundingPhase2, markRoundingPhase3,
          markRounded, raceFinished, finishTime, seenEastNorth, seenEastThenWest,
          Scoreboard, firebaseReady, inFlight, IsWASM, hiddenByHide>>

scoreboardVars == <<Scoreboard, firebaseReady, inFlight, IsWASM, hiddenByHide>>

----------------------------------------------------------------------------
(* Bounds of the model *)

Scale == 1              \* grid units per metre
LineHalfLength == 1     \* half the length of the start line, grid units
MarkDistance == 2       \* upwind mark north of the line, grid units
StartDistance == 1      \* boat start south of the line, grid units
TickDelta == 10         \* the non-zero delta between two ticks, seconds
MaxElapsed == 40        \* no tick runs the clock past this, seconds
FrameDelta == 5         \* SpecWind: the non-zero time between two frames, seconds
MaxPause == 10          \* no frame ends further than this from lastUpdateTime, seconds
CentiKnot == 3          \* speed units per hundredth of a knot
SailReach == 1          \* SpecSailing: a boat is kept this near its start, grid units
MaxNameLen == 2         \* the longest player name (the game allows 20 characters)
MaxInFlight == 2        \* SpecScoreboard: backend requests waiting for their callback

(* Program constants *)

WorldWidth == 2000
BoatHeight == 15
TimerDuration == 30
JumpStep == 10
FullCircle == 360
BiasMin == 5            \* NewOscillatingWind: 5.0 + rand.Float64()*10.0
BiasSpan == 10
BiasOutDuration == 10   \* the three phases of the initial bias cycle, seconds
BiasPeakDuration == 25
BiasBackDuration == 10
BiasShiftDuration == 45
ShiftMin == -10         \* startNewShift: -10.0 + rand.Float64()*20.0
ShiftSpan == 20
DurationMin == 13       \* startNewShift: 13 + rand.Intn(13), seconds
DurationSpan == 13
targetBeatSpeed == 1    \* the polar speed at 45 degrees, in the unit of Speeds
NewGameLeftSpeed == 14  \* NewGame: the wind of the left and of the right side, knots
NewGameRightSpeed == 8
speedScale == 5         \* boat.go: 30.0 / 6.0 pixels per second per knot
FramesPerSecond == 60   \* Boat.Update: b.Speed * speedScale / 60.0

startLineY == 2400 * Scale
TurnStep == FullCircle \div 4
bowDistance == (BoatHeight * Scale) \div 2

Min(a, b) == IF a <= b THEN a ELSE b
Max(a, b) == IF a >= b THEN a ELSE b

(* The course of NewGame *)
pinX == (WorldWidth \div 2) * Scale - LineHalfLength
committeeX == (WorldWidth \div 2) * Scale + LineHalfLength
lineY == startLineY
upwindMarkX == (pinX + committeeX) \div 2
upwindMarkY == lineY - MarkDistance
boatStartX == (pinX + committeeX) \div 2
boatStartY == lineY + StartDistance

Dashboard == [LineStart |-> [X |-> pinX, Y |-> lineY],
              LineEnd   |-> [X |-> committeeX, Y |-> lineY]]

Marks == << [X |-> pinX, Y |-> lineY],
            [X |-> committeeX, Y |-> lineY],
            [X |-> upwindMarkX, Y |-> upwindMarkY] >>

(* The window the boat is kept in *)
XMin == pinX - 1
XMax == committeeX
YMin == upwindMarkY - Scale
YMax == lineY + bowDistance + 1

DeltaTimes == {0, TickDelta}
Speeds == {0, 1}

\* the draws of the wind: both signs of the start line bias, both ends of the
\* random shift, and the shift durations 13 + rand.Intn(13) of the draws 0, 2,
\* 11 and 12, the least and the greatest among them
FrameDeltas == {0, FrameDelta}
BiasAngles == {-(BiasMin + BiasSpan - 1), BiasMin}
ShiftAngles == {ShiftMin, ShiftMin + ShiftSpan - 1}
ShiftDurations == {DurationMin, 15, 24, DurationMin + DurationSpan - 1}

----------------------------------------------------------------------------
(* Boat *)

\* math.Sin / math.Cos of a heading in degrees, rounded to the nearest integer
Sin(h) == IF h >= 30 /\ h <= 150 THEN 1
          ELSE IF h >= 210 /\ h <= 330 THEN -1 ELSE 0

Cos(h) == IF h <= 60 \/ h >= 300 THEN 1
          ELSE IF h >= 120 /\ h <= 240 THEN -1 ELSE 0

\* the true wind angle left as the difference of the two directions
TrueWindAngle_NoWrap(heading, windDir) == heading - windDir

\* the true wind angle of Boat.Update and CalculateVMG, in [-180, 180]
TrueWindAngle(heading, windDir) ==
    LET twa == heading - windDir
    IN  IF twa < -180 THEN twa + 360 ELSE IF twa > 180 THEN twa - 360 ELSE twa

\* Dashboard.CalculateVMG: Speed * cos(TWA)
CalculateVMG(b, windDir) ==
    LET twa == TrueWindAngle(b.Heading, windDir)
    IN  b.Speed * Cos(IF twa < 0 THEN -twa ELSE twa)

\* Update, lines 312-319: the speed as a percentage of the target beat speed
SpeedPercentage(b) ==
    IF targetBeatSpeed > 0 THEN (b.Speed * 100) \div targetBeatSpeed ELSE 0

GetBowPosition(b) ==
    [X |-> b.Pos.X + bowDistance * Sin(b.Heading),
     Y |-> b.Pos.Y - bowDistance * Cos(b.Heading)]

\* Boat.Update with the polar speed of this tick, in grid units per tick
BoatUpdate(b, pixelSpeed) ==
    [b EXCEPT !.Speed = pixelSpeed,
              !.Pos = [X |-> b.Pos.X + pixelSpeed * Sin(b.Heading),
                       Y |-> b.Pos.Y - pixelSpeed * Cos(b.Heading)]]

InWindow(p) == p.X >= XMin /\ p.X <= XMax /\ p.Y >= YMin /\ p.Y <= YMax

\* the lane of the window between the pin and the upwind mark
InLane(p) == p.X >= pinX /\ p.X <= upwindMarkX /\ p.Y <= boatStartY

----------------------------------------------------------------------------
(* VariableWind.  A wind sample is the pair <<direction, speed>>, the speed *)
(* in units of 1 / (100 * CentiKnot) knot.                                  *)

Knot == 100 * CentiKnot

\* GetWind that extends the gradient beyond the two edges of the world
VariableGetWind_NoClamp(vw, pos) ==
    IF vw.WorldWidth <= 0
    THEN <<vw.Direction, vw.LeftSpeed>>
    ELSE LET speed == vw.LeftSpeed +
                          ((vw.RightSpeed - vw.LeftSpeed) * pos.X) \div vw.WorldWidth
         IN  <<vw.Direction, IF speed < 0 THEN vw.LeftSpeed ELSE speed>>

\* VariableWind.GetWind; the quotient of the interpolation is rounded down
VariableGetWind(vw, pos) ==
    IF vw.WorldWidth <= 0
    THEN <<vw.Direction, vw.LeftSpeed>>
    ELSE LET x == IF pos.X < 0 THEN 0
                  ELSE IF pos.X > vw.WorldWidth THEN vw.WorldWidth ELSE pos.X
             speed == vw.LeftSpeed +
                          ((vw.RightSpeed - vw.LeftSpeed) * x) \div vw.WorldWidth
         IN  <<vw.Direction, IF speed < 0 THEN vw.LeftSpeed ELSE speed>>

\* OscillatingWind.GetWind
GetWind(ow, pos) == VariableGetWind(ow.baseWind, pos)

----------------------------------------------------------------------------
(* OscillatingWind *)

\* NormalizeDirection leaving the direction as it is
NormalizeDirection_Identity(d) == d

RECURSIVE NormalizeDirection(_)
\* UpdateWithElapsedTime, lines 176-182
NormalizeDirection(d) ==
    IF d < 0 THEN NormalizeDirection(d + FullCircle)
    ELSE IF d >= FullCircle THEN NormalizeDirection(d - FullCircle)
    ELSE d

\* the duration of the phase that starts now
PhaseDuration(ow, phase) ==
    IF ow.isInInitialBiasCycle
    THEN (IF phase = 0 THEN BiasOutDuration
          ELSE IF phase = 1 THEN BiasPeakDuration ELSE BiasBackDuration)
    ELSE ow.shiftDuration \div 3

\* startNewShift that never leaves the initial bias
startNewShift_KeepBias(ow, angle, duration) ==
    LET ow1 == [ow EXCEPT !.shiftDuration = BiasShiftDuration,
                          !.shiftAngle = ow.initialBiasAngle,
                          !.isInInitialBiasCycle = TRUE,
                          !.isInitialBias = FALSE]
    IN  [ow1 EXCEPT !.shiftPhase = 0,
                    !.sincePhaseStart = 0,
                    !.phaseDuration = PhaseDuration(ow1, 0)]

\* startNewShift that keeps the length of a phase as the length of the shift
startNewShift_ThirdAsShift(ow, angle, duration) ==
    LET ow1 == IF ow.isInitialBias
               THEN [ow EXCEPT !.shiftDuration = BiasShiftDuration,
                               !.shiftAngle = ow.initialBiasAngle,
                               !.isInInitialBiasCycle = TRUE,
                               !.isInitialBias = FALSE]
               ELSE [ow EXCEPT !.shiftDuration = duration \div 3,
                               !.shiftAngle = angle,
                               !.isInInitialBiasCycle = FALSE]
    IN  [ow1 EXCEPT !.shiftPhase = 0,
                    !.sincePhaseStart = 0,
                    !.phaseDuration = PhaseDuration(ow1, 0)]

\* startNewShift with the draws angle and duration of the random branch
startNewShift(ow, angle, duration) ==
    LET ow1 == IF ow.isInitialBias
               THEN [ow EXCEPT !.shiftDuration = BiasShiftDuration,
                               !.shiftAngle = ow.initialBiasAngle,
                               !.isInInitialBiasCycle = TRUE,
                               !.isInitialBias = FALSE]
               ELSE [ow EXCEPT !.shiftDuration = duration,
                               !.shiftAngle = angle,
                               !.isInInitialBiasCycle = FALSE]
    IN  [ow1 EXCEPT !.shiftPhase = 0,
                    !.sincePhaseStart = 0,
                    !.phaseDuration = PhaseDuration(ow1, 0)]

\* NewOscillatingWind with the draw biasAngle
NewOscillatingWind(leftSpeed, rightSpeed, worldWidth, biasAngle) ==
    startNewShift([baseWind |-> [WorldWidth |-> worldWidth,
                                 Direction |-> 0,
                                 LeftSpeed |-> leftSpeed,
                                 RightSpeed |-> rightSpeed],
                   isInInitialBiasCycle |-> FALSE,
                   shiftDuration |-> 0,
                   shiftAngle |-> 0,
                   initialBiasAngle |-> biasAngle,
                   isInitialBias |-> TRUE,
                   shiftPhase |-> 0,
                   sincePhaseStart |-> 0,
                   phaseDuration |-> 0,
                   medianDirection |-> 0,
                   currentDirection |-> 0], 0, 0)

\* the wind after d seconds of wall clock: phaseStartTime falls d further back
WindAged(ow, d) == [ow EXCEPT !.sincePhaseStart = @ + d]

\* the next UpdateWithElapsedTime ends the shift and calls startNewShift
ShiftEnds(ow) == ow.shiftPhase = 2 /\ ow.sincePhaseStart >= ow.phaseDuration

\* UpdateWithElapsedTime that leaves phaseStartTime alone when a phase is over
UpdateWithElapsedTime_KeepPhaseStart(ow, angle, duration) ==
    LET elapsedPhase == ow.sincePhaseStart
        done == elapsedPhase >= ow.phaseDuration
        peak == ow.medianDirection + ow.shiftAngle
        ow1 ==
          IF ow.shiftPhase = 0
          THEN (IF done
                THEN [ow EXCEPT !.shiftPhase = 1,
                                !.phaseDuration = PhaseDuration(ow, 1),
                                !.currentDirection = peak]
                ELSE [ow EXCEPT !.currentDirection = ow.medianDirection +
                                    (ow.shiftAngle * elapsedPhase) \div ow.phaseDuration])
          ELSE IF ow.shiftPhase = 1
          THEN (IF done
                THEN [ow EXCEPT !.shiftPhase = 2,
                                !.phaseDuration = PhaseDuration(ow, 2),
                                !.currentDirection = peak]
                ELSE [ow EXCEPT !.currentDirection = peak])
          ELSE (IF done
                THEN startNewShift([ow EXCEPT !.currentDirection = ow.medianDirection],
                                   angle, duration)
                ELSE [ow EXCEPT !.currentDirection = ow.medianDirection +
                                    (ow.shiftAngle * (ow.phaseDuration - elapsedPhase))
                                        \div ow.phaseDuration])
    IN  [ow1 EXCEPT !.currentDirection = NormalizeDirection(ow1.currentDirection),
                    !.baseWind.Direction = NormalizeDirection(ow1.currentDirection)]

\* UpdateWithElapsedTime that goes from the way out straight to the way back
UpdateWithElapsedTime_SkipPeak(ow, angle, duration) ==
    LET elapsedPhase == ow.sincePhaseStart
        done == elapsedPhase >= ow.phaseDuration
        peak == ow.medianDirection + ow.shiftAngle
        ow1 ==
          IF ow.shiftPhase = 0
          THEN (IF done
                THEN [ow EXCEPT !.shiftPhase = 2,
                                !.sincePhaseStart = 0,
                                !.phaseDuration = PhaseDuration(ow, 2),
                                !.currentDirection = peak]
                ELSE [ow EXCEPT !.currentDirection = ow.medianDirection +
                                    (ow.shiftAngle * elapsedPhase) \div ow.phaseDuration])
          ELSE IF ow.shiftPhase = 1
          THEN (IF done
                THEN [ow EXCEPT !.shiftPhase = 2,
                                !.sincePhaseStart = 0,
                                !.phaseDuration = PhaseDuration(ow, 2),
                                !.currentDirection = peak]
                ELSE [ow EXCEPT !.currentDirection = peak])
          ELSE (IF done
                THEN startNewShift([ow EXCEPT !.currentDirection = ow.medianDirection],
                                   angle, duration)
                ELSE [ow EXCEPT !.currentDirection = ow.medianDirection +
                                    (ow.shiftAngle * (ow.phaseDuration - elapsedPhase))
                                        \div ow.phaseDuration])
    IN  [ow1 EXCEPT !.currentDirection = NormalizeDirection(ow1.currentDirection),
                    !.baseWind.Direction = NormalizeDirection(ow1.currentDirection)]

\* UpdateWithElapsedTime with the draws angle and duration of startNewShift;
\* shiftStartTime is never the zero time, so the test of line 123 never holds
UpdateWithElapsedTime(ow, angle, duration) ==
    LET elapsedPhase == ow.sincePhaseStart
        done == elapsedPhase >= ow.phaseDuration
        peak == ow.medianDirection + ow.shiftAngle
        ow1 ==
          IF ow.shiftPhase = 0
          THEN (IF done
                THEN [ow EXCEPT !.shiftPhase = 1,
                                !.sincePhaseStart = 0,
                                !.phaseDuration = PhaseDuration(ow, 1),
                                !.currentDirection = peak]
                ELSE [ow EXCEPT !.currentDirection = ow.medianDirection +
                                    (ow.shiftAngle * elapsedPhase) \div ow.phaseDuration])
          ELSE IF ow.shiftPhase = 1
          THEN (IF done
                THEN [ow EXCEPT !.shiftPhase = 2,
                                !.sincePhaseStart = 0,
                                !.phaseDuration = PhaseDuration(ow, 2),
                                !.currentDirection = peak]
                ELSE [ow EXCEPT !.currentDirection = peak])
          ELSE (IF done
                THEN startNewShift([ow EXCEPT !.currentDirection = ow.medianDirection],
                                   angle, duration)
                ELSE [ow EXCEPT !.currentDirection = ow.medianDirection +
                                    (ow.shiftAngle * (ow.phaseDuration - elapsedPhase))
                                        \div ow.phaseDuration])
    IN  [ow1 EXCEPT !.currentDirection = NormalizeDirection(ow1.currentDirection),
                    !.baseWind.Direction = NormalizeDirection(ow1.currentDirection)]

----------------------------------------------------------------------------
(* RealisticPolar.  Angles are tenths of a degree and speeds units of        *)
(* 1 / (100 * CentiKnot) knot; every quotient of an interpolation is rounded *)
(* down.  The tables are written as in the source, in knots, degrees and     *)
(* hundredths of a knot, the beat angles in tenths of a degree.              *)

Tenths(degrees) == 10 * degrees

Abs(a) == IF a < 0 THEN -a ELSE a

windSpeeds == <<4, 6, 8, 10, 12, 14, 16, 20, 24>>

angles == <<52, 60, 75, 90, 110, 120, 135, 150>>

speedTable ==
    << << 373,  394,  406,  399,  402,  385,  337,  278>>,   \* 4 kt wind
       << 505,  530,  545,  547,  553,  534,  477,  403>>,   \* 6 kt wind
       << 601,  625,  641,  655,  664,  649,  596,  518>>,   \* 8 kt wind
       << 662,  679,  693,  713,  723,  714,  681,  616>>,   \* 10 kt wind
       << 694,  710,  724,  747,  765,  758,  733,  689>>,   \* 12 kt wind
       << 708,  727,  748,  767,  804,  799,  776,  735>>,   \* 14 kt wind
       << 716,  735,  765,  782,  839,  841,  821,  776>>,   \* 16 kt wind
       << 724,  746,  784,  819,  889,  934,  924,  864>>,   \* 20 kt wind
       << 726,  749,  795,  844,  930, 1014, 1085,  990>>   \* 24 kt wind
    >>

beatVMG == <<240, 333, 409, 463, 496, 510, 517, 524, 520>>

beatAngles == <<427, 427, 404, 389, 375, 369, 366, 366, 372>>

\* the entries of the tables in the units of the model; i counts from 0
windSpeedAt(i) == windSpeeds[i + 1] * Knot
angleAt(j) == Tenths(angles[j + 1])
speedAt(i, j) == speedTable[i + 1][j + 1] * CentiKnot
beatVMGUnits == [i \in 1..Len(beatVMG) |-> beatVMG[i] * CentiKnot]

\* findWindIndex: the first row whose successor is not below tws, else the
\* last but one
findWindIndex(tws) ==
    LET fits == {i \in 0..(Len(windSpeeds) - 2) : tws <= windSpeedAt(i + 1)}
    IN  IF fits = {} THEN Len(windSpeeds) - 2
        ELSE CHOOSE i \in fits : \A k \in fits : i <= k

\* interpolateFloat over values, a sequence in the units of the model
interpolateFloat(tws, values, windIndex) ==
    IF windIndex >= Len(windSpeeds) - 1 THEN values[Len(values)]
    ELSE LET w1 == windSpeedAt(windIndex)
             w2 == windSpeedAt(windIndex + 1)
             v1 == values[windIndex + 1]
             v2 == values[windIndex + 2]
         IN  v1 + ((v2 - v1) * (tws - w1)) \div (w2 - w1)

\* interpolateAngle in the row of the table
interpolateAngle(twa, row, angleIndex) ==
    IF angleIndex >= Len(angles) - 1 THEN speedAt(row, Len(angles) - 1)
    ELSE LET a1 == angleAt(angleIndex)
             a2 == angleAt(angleIndex + 1)
             s1 == speedAt(row, angleIndex)
             s2 == speedAt(row, angleIndex + 1)
         IN  s1 + ((s2 - s1) * (twa - a1)) \div (a2 - a1)

\* getSpeedAtAngle that stops at the lower of the two rows
getSpeedAtAngle_LowerRow(twa, tws) ==
    LET windIndex == findWindIndex(tws)
        fits == {j \in 0..(Len(angles) - 2) : twa <= angleAt(j + 1)}
        found == IF fits = {} THEN 0
                 ELSE CHOOSE j \in fits : \A k \in fits : j <= k
        angleIndex == IF found >= Len(angles) - 1 THEN Len(angles) - 2 ELSE found
    IN  interpolateAngle(twa, windIndex, angleIndex)

\* getSpeedAtAngle; the search of the angle index leaves it 0 when twa is
\* above the last angle of the table
getSpeedAtAngle(twa, tws) ==
    LET windIndex == findWindIndex(tws)
        fits == {j \in 0..(Len(angles) - 2) : twa <= angleAt(j + 1)}
        found == IF fits = {} THEN 0
                 ELSE CHOOSE j \in fits : \A k \in fits : j <= k
        angleIndex == IF found >= Len(angles) - 1 THEN Len(angles) - 2 ELSE found
        speed1 == interpolateAngle(twa, windIndex, angleIndex)
        speed2 == interpolateAngle(twa, windIndex + 1, angleIndex)
        w1 == windSpeedAt(windIndex)
        w2 == windSpeedAt(windIndex + 1)
    IN  speed1 + ((speed2 - speed1) * (tws - w1)) \div (w2 - w1)

\* the angle GetBoatSpeed works with: the absolute angle, folded at 180
AbsTWA(twa) == IF Abs(twa) > Tenths(180) THEN Tenths(360) - Abs(twa) ELSE Abs(twa)

\* GetBoatSpeed that takes the signed angle for the absolute one
GetBoatSpeed_Signed(twa, tws) ==
    IF twa < Tenths(30) THEN 0
    ELSE IF twa < Tenths(52)
    THEN LET windIndex == findWindIndex(tws)
             beatAngle == interpolateFloat(tws, beatAngles, windIndex)
             vmg == interpolateFloat(tws, beatVMGUnits, windIndex)
             speed52 == getSpeedAtAngle(Tenths(52), tws)
         IN  IF twa < beatAngle THEN 0
             ELSE vmg + ((speed52 - vmg) * (twa - beatAngle))
                            \div (Tenths(52) - beatAngle)
    ELSE getSpeedAtAngle(twa, tws)

\* GetBoatSpeed whose no-go zone ends at 30 degrees in every wind
GetBoatSpeed_NoBeatAngle(twa, tws) ==
    LET absTWA == AbsTWA(twa)
    IN  IF absTWA < Tenths(30) THEN 0
        ELSE IF absTWA < Tenths(52)
        THEN LET windIndex == findWindIndex(tws)
                 vmg == interpolateFloat(tws, beatVMGUnits, windIndex)
                 speed52 == getSpeedAtAngle(Tenths(52), tws)
             IN  vmg + ((speed52 - vmg) * (absTWA - Tenths(30)))
                            \div (Tenths(52) - Tenths(30))
        ELSE getSpeedAtAngle(absTWA, tws)

\* GetBoatSpeed that takes the speed lost to the wind for a speed astern
GetBoatSpeed_Astern(twa, tws) ==
    LET absTWA == AbsTWA(twa)
    IN  IF absTWA < Tenths(30) THEN 0 - tws \div 10
        ELSE IF absTWA < Tenths(52)
        THEN LET windIndex == findWindIndex(tws)
                 beatAngle == interpolateFloat(tws, beatAngles, windIndex)
                 vmg == interpolateFloat(tws, beatVMGUnits, windIndex)
                 speed52 == getSpeedAtAngle(Tenths(52), tws)
             IN  IF absTWA < beatAngle THEN 0 - tws \div 10
                 ELSE vmg + ((speed52 - vmg) * (absTWA - beatAngle))
                                \div (Tenths(52) - beatAngle)
        ELSE getSpeedAtAngle(absTWA, tws)

\* RealisticPolar.GetBoatSpeed
GetBoatSpeed(twa, tws) ==
    LET absTWA == AbsTWA(twa)
    IN  IF absTWA < Tenths(30) THEN 0
        ELSE IF absTWA < Tenths(52)
        THEN LET windIndex == findWindIndex(tws)
                 beatAngle == interpolateFloat(tws, beatAngles, windIndex)
                 vmg == interpolateFloat(tws, beatVMGUnits, windIndex)
                 speed52 == getSpeedAtAngle(Tenths(52), tws)
             IN  IF absTWA < beatAngle THEN 0
                 ELSE vmg + ((speed52 - vmg) * (absTWA - beatAngle))
                                \div (Tenths(52) - beatAngle)
        ELSE getSpeedAtAngle(absTWA, tws)

----------------------------------------------------------------------------
(* Boat.Update and Dashboard.FindBestVMG in the wind *)

\* 1000 * math.Cos of 0, 1, ... 90 degrees, rounded to the nearest integer
cosTable ==
    << 1000, 1000, 999, 999, 998, 996, 995, 993, 990, 988, 985, 982, 978,
       974, 970, 966, 961, 956, 951, 946, 940, 934, 927, 921, 914, 906,
       899, 891, 883, 875, 866, 857, 848, 839, 829, 819, 809, 799, 788,
       777, 766, 755, 743, 731, 719, 707, 695, 682, 669, 656, 643, 629,
       616, 602, 588, 574, 559, 545, 530, 515, 500, 485, 469, 454, 438,
       423, 407, 391, 375, 358, 342, 326, 309, 292, 276, 259, 242, 225,
       208, 191, 174, 156, 139, 122, 105, 87, 70, 52, 35, 17, 0 >>

\* 1000 * math.Cos of a whole angle of 0 to 180 degrees
CosMilli(degrees) ==
    IF degrees <= 90 THEN cosTable[degrees + 1] ELSE 0 - cosTable[181 - degrees]

\* Boat.Update, lines 146-158: the polar speed of the boat in the wind
polarSpeed(b, ow) ==
    LET sample == GetWind(ow, b.Pos)
    IN  GetBoatSpeed(Tenths(TrueWindAngle(b.Heading, sample[1])), sample[2])

\* Boat.Update in the wind ow; the way of a frame is rounded down to whole
\* grid units
BoatUpdateInWind(b, ow) ==
    LET speed == polarSpeed(b, ow)
        pixelSpeed == (speed * speedScale * Scale) \div (FramesPerSecond * Knot)
    IN  [b EXCEPT !.Speed = speed,
                  !.Pos = [X |-> b.Pos.X + pixelSpeed * Sin(b.Heading),
                           Y |-> b.Pos.Y - pixelSpeed * Cos(b.Heading)]]

\* the VMG of one candidate angle of FindBestVMG, in 1/1000 of a speed unit
candidateVMG(angle, tws) == GetBoatSpeed(Tenths(angle), tws) * CosMilli(angle)

\* FindBestVMG, lines 86-94: bestVMG after the scan of the angles 30 to 90,
\* which starts at 0 and keeps every greater vmg
bestBeatVMG(tws) ==
    LET scanned == {0} \cup {candidateVMG(angle, tws) : angle \in 30..90}
    IN  CHOOSE best \in scanned : \A vmg \in scanned : best >= vmg

\* FindBestVMG, lines 97-105: bestVMG after the scan of the angles 90 to 180,
\* which starts at 0 and keeps every lesser vmg
bestRunVMG(tws) ==
    LET scanned == {0} \cup {candidateVMG(angle, tws) : angle \in 90..180}
    IN  CHOOSE best \in scanned : \A vmg \in scanned : best <= vmg

\* FindBestVMG that scans upwind on the beam reach too
FindBestVMG_BeatAt90(b, ow) ==
    LET sample == GetWind(ow, b.Pos)
        absTWA == Abs(TrueWindAngle(b.Heading, sample[1]))
    IN  IF absTWA <= 90 THEN bestBeatVMG(sample[2])
        ELSE bestRunVMG(sample[2])

\* Dashboard.FindBestVMG, in 1/1000 of a speed unit
FindBestVMG(b, ow) ==
    LET sample == GetWind(ow, b.Pos)
        absTWA == Abs(TrueWindAngle(b.Heading, sample[1]))
    IN  IF absTWA < 90 THEN bestBeatVMG(sample[2])
        ELSE bestRunVMG(sample[2])

----------------------------------------------------------------------------
(* Race rules *)

\* isWithinLineBounds testing the upper end of the line only
isWithinLineBounds_NoMin(d, bowPos) ==
    LET maxX == Max(d.LineStart.X, d.LineEnd.X)
    IN  bowPos.X <= maxX

isWithinLineBounds(d, bowPos) ==
    LET minX == Min(d.LineStart.X, d.LineEnd.X)
        maxX == Max(d.LineStart.X, d.LineEnd.X)
    IN  bowPos.X >= minX /\ bowPos.X <= maxX

\* ocsUpdate that flags a bow over the line after the start too
ocsUpdate_AfterStart(started, ocs, bowPos) ==
    LET ocs1 == IF bowPos.Y <= startLineY /\ isWithinLineBounds(Dashboard, bowPos)
                THEN TRUE ELSE ocs
    IN  IF ocs1 /\ bowPos.Y > startLineY /\ isWithinLineBounds(Dashboard, bowPos)
        THEN FALSE ELSE ocs1

\* ocsUpdate clearing OCS on the pre-start side without the X-bounds test
ocsUpdate_ClearAnywhere(started, ocs, bowPos) ==
    IF ~started
    THEN LET ocs1 == IF bowPos.Y <= startLineY /\ isWithinLineBounds(Dashboard, bowPos)
                     THEN TRUE ELSE ocs
         IN  IF ocs1 /\ bowPos.Y > startLineY THEN FALSE ELSE ocs1
    ELSE IF ocs /\ bowPos.Y > startLineY THEN FALSE ELSE ocs

\* ocsUpdate with a bow exactly on the line not counted as over it
ocsUpdate_StrictlyOver(started, ocs, bowPos) ==
    IF ~started
    THEN LET ocs1 == IF bowPos.Y < startLineY /\ isWithinLineBounds(Dashboard, bowPos)
                     THEN TRUE ELSE ocs
         IN  IF ocs1 /\ bowPos.Y > startLineY /\ isWithinLineBounds(Dashboard, bowPos)
             THEN FALSE ELSE ocs1
    ELSE IF ocs /\ bowPos.Y > startLineY /\ isWithinLineBounds(Dashboard, bowPos)
         THEN FALSE ELSE ocs

\* Update, lines 284-297: the new isOCS
ocsUpdate(started, ocs, bowPos) ==
    IF ~started
    THEN LET ocs1 == IF bowPos.Y <= startLineY /\ isWithinLineBounds(Dashboard, bowPos)
                     THEN TRUE ELSE ocs
         IN  IF ocs1 /\ bowPos.Y > startLineY /\ isWithinLineBounds(Dashboard, bowPos)
             THEN FALSE ELSE ocs1
    ELSE IF ocs /\ bowPos.Y > startLineY /\ isWithinLineBounds(Dashboard, bowPos)
         THEN FALSE ELSE ocs

\* lineCrossingDetected testing the X-bounds on the previous sample too
lineCrossingDetected_PrevInBounds(crossed, ocs, prev, bowPos) ==
    /\ ~crossed
    /\ ~ocs
    /\ prev.Y > startLineY
    /\ bowPos.Y <= startLineY
    /\ isWithinLineBounds(Dashboard, prev)
    /\ isWithinLineBounds(Dashboard, bowPos)

\* lineCrossingDetected without the OCS test
lineCrossingDetected_IgnoreOCS(crossed, ocs, prev, bowPos) ==
    /\ ~crossed
    /\ prev.Y > startLineY
    /\ bowPos.Y <= startLineY
    /\ isWithinLineBounds(Dashboard, bowPos)

\* lineCrossingDetected without the test that no crossing is recorded yet
lineCrossingDetected_Relatch(crossed, ocs, prev, bowPos) ==
    /\ ~ocs
    /\ prev.Y > startLineY
    /\ bowPos.Y <= startLineY
    /\ isWithinLineBounds(Dashboard, bowPos)

\* Update, lines 301-304: the start line is crossed in this tick
lineCrossingDetected(crossed, ocs, prev, bowPos) ==
    /\ ~crossed
    /\ ~ocs
    /\ prev.Y > startLineY
    /\ bowPos.Y <= startLineY
    /\ isWithinLineBounds(Dashboard, bowPos)

\* updateMarkRounding whose drift-east reset ignores that phase 3 is complete
updateMarkRounding_ResetAfterPhase3(marks, m, boatPos) ==
    IF Len(marks) < 3 THEN m
    ELSE
    LET upwindMark == marks[3]
        p1a == IF ~m.p1 /\ boatPos.Y <= upwindMark.Y - Scale THEN TRUE ELSE m.p1
        p2a == IF p1a /\ ~m.p2
               THEN (IF boatPos.Y < upwindMark.Y
                     THEN (IF boatPos.X <= upwindMark.X - Scale THEN TRUE ELSE m.p2)
                     ELSE FALSE)
               ELSE m.p2
        hit3 == p1a /\ p2a /\ ~m.p3 /\ boatPos.Y >= upwindMark.Y + Scale
        p3a == IF hit3 THEN TRUE ELSE m.p3
        ra  == IF hit3 THEN TRUE ELSE m.rounded
        p2b == IF p2a /\ boatPos.Y < upwindMark.Y /\ boatPos.X > upwindMark.X
               THEN FALSE ELSE p2a
    IN  [p1 |-> p1a, p2 |-> p2b, p3 |-> p3a, rounded |-> ra]

\* updateMarkRounding without the drift-east reset of phase 2
updateMarkRounding_NoEastReset(marks, m, boatPos) ==
    IF Len(marks) < 3 THEN m
    ELSE
    LET upwindMark == marks[3]
        p1a == IF ~m.p1 /\ boatPos.Y <= upwindMark.Y - Scale THEN TRUE ELSE m.p1
        p2a == IF p1a /\ ~m.p2
               THEN (IF boatPos.Y < upwindMark.Y
                     THEN (IF boatPos.X <= upwindMark.X - Scale THEN TRUE ELSE m.p2)
                     ELSE FALSE)
               ELSE m.p2
        hit3 == p1a /\ p2a /\ ~m.p3 /\ boatPos.Y >= upwindMark.Y + Scale
        p3a == IF hit3 THEN TRUE ELSE m.p3
        ra  == IF hit3 THEN TRUE ELSE m.rounded
    IN  [p1 |-> p1a, p2 |-> p2a, p3 |-> p3a, rounded |-> ra]

\* updateMarkRounding taking the last mark of the arena for the upwind mark
updateMarkRounding_UsesLastMark(marks, m, boatPos) ==
    LET upwindMark == marks[Len(marks)]
        p1a == IF ~m.p1 /\ boatPos.Y <= upwindMark.Y - Scale THEN TRUE ELSE m.p1
        p2a == IF p1a /\ ~m.p2
               THEN (IF boatPos.Y < upwindMark.Y
                     THEN (IF boatPos.X <= upwindMark.X - Scale THEN TRUE ELSE m.p2)
                     ELSE FALSE)
               ELSE m.p2
        hit3 == p1a /\ p2a /\ ~m.p3 /\ boatPos.Y >= upwindMark.Y + Scale
        p3a == IF hit3 THEN TRUE ELSE m.p3
        ra  == IF hit3 THEN TRUE ELSE m.rounded
        p2b == IF p2a /\ ~p3a /\ boatPos.Y < upwindMark.Y /\ boatPos.X > upwindMark.X
               THEN FALSE ELSE p2a
    IN  [p1 |-> p1a, p2 |-> p2b, p3 |-> p3a, rounded |-> ra]

\* updateMarkRounding on the flags m = [p1, p2, p3, rounded] with the boat at boatPos
updateMarkRounding(marks, m, boatPos) ==
    IF Len(marks) < 3 THEN m
    ELSE
    LET upwindMark == marks[3]
        p1a == IF ~m.p1 /\ boatPos.Y <= upwindMark.Y - Scale THEN TRUE ELSE m.p1
        p2a == IF p1a /\ ~m.p2
               THEN (IF boatPos.Y < upwindMark.Y
                     THEN (IF boatPos.X <= upwindMark.X - Scale THEN TRUE ELSE m.p2)
                     ELSE FALSE)
               ELSE m.p2
        hit3 == p1a /\ p2a /\ ~m.p3 /\ boatPos.Y >= upwindMark.Y + Scale
        p3a == IF hit3 THEN TRUE ELSE m.p3
        ra  == IF hit3 THEN TRUE ELSE m.rounded
        p2b == IF p2a /\ ~p3a /\ boatPos.Y < upwindMark.Y /\ boatPos.X > upwindMark.X
               THEN FALSE ELSE p2a
    IN  [p1 |-> p1a, p2 |-> p2b, p3 |-> p3a, rounded |-> ra]

\* markRoundingActive without the hasCrossedLine test
markRoundingActive_NoCrossing(crossed, finished) == ~finished

\* Update, line 324: updateMarkRounding is called in this tick
markRoundingActive(crossed, finished) == crossed /\ ~finished

\* Update, line 329: checkFinishLineCrossing is called in this tick
finishCheckActive(crossed, rounded, finished) == crossed /\ rounded /\ ~finished

\* checkFinishLineCrossing looking at the current sample only
checkFinishLineCrossing_NoStraddle(prev, bowPos) ==
    /\ bowPos.Y >= startLineY
    /\ isWithinLineBounds(Dashboard, bowPos)

\* checkFinishLineCrossing: the finish line is crossed in this tick
checkFinishLineCrossing(prev, bowPos) ==
    /\ prev.Y < startLineY
    /\ bowPos.Y >= startLineY
    /\ isWithinLineBounds(Dashboard, bowPos)

\* the bow of the race rules taken after the Boat.Update of the tick
rulesBow_AfterStep(b, moved) == GetBowPosition(moved)

\* Update, line 282: the bow the race rules of a tick look at, of the boat b the
\* tick begins with; moved is the boat after the turn inputs and Boat.Update
\* of lines 337-362
rulesBow(b, moved) == GetBowPosition(b)

\* turnHeading that does not bring a heading below north back into the circle
turnHeading_NoWrapBelow(h, left, right) ==
    LET h1 == IF left THEN h - TurnStep ELSE h
        h2 == IF right THEN h1 + TurnStep ELSE h1
    IN  IF h2 >= FullCircle THEN h2 - FullCircle ELSE h2

\* Update, lines 337-360: the heading after the turn inputs
turnHeading(h, left, right) ==
    LET h1 == IF left THEN h - TurnStep ELSE h
        h2 == IF right THEN h1 + TurnStep ELSE h1
        h3 == IF h2 < 0 THEN h2 + FullCircle ELSE h2
    IN  IF h3 >= FullCircle THEN h3 - FullCircle ELSE h3

\* jumpTimer without the test that the race has not started
jumpTimer_AfterStart(jump, started, elapsed) ==
    IF jump
    THEN (IF elapsed + JumpStep > TimerDuration THEN TimerDuration ELSE elapsed + JumpStep)
    ELSE elapsed

\* Update, lines 207-213: elapsedTime after the J key
jumpTimer(jump, started, elapsed) ==
    IF jump /\ ~started
    THEN (IF elapsed + JumpStep > TimerDuration THEN TimerDuration ELSE elapsed + JumpStep)
    ELSE elapsed

\* Update, lines 234-240: isPaused after the pause toggle
togglePause(toggle, paused) == IF toggle THEN ~paused ELSE paused

\* deltaTime with lastUpdateTime not reset when the game is resumed
deltaTimeOf_NoReset(resumed, since, d) == since + d

\* Update, lines 236-239 and 253-254: now.Sub(lastUpdateTime) for a frame d
\* seconds after the previous one; a frame that resumes the game has just
\* reset lastUpdateTime
deltaTimeOf(resumed, since, d) == IF resumed THEN 0 ELSE since + d

\* raceStartDue starting the race only once the countdown is overrun
raceStartDue_Late(started, elapsed) == ~started /\ elapsed > TimerDuration

\* raceStartDue starting the race one timer jump early
raceStartDue_Early(started, elapsed) ==
    ~started /\ elapsed >= TimerDuration - JumpStep

\* Update, line 269: the race starts in this tick
raceStartDue(started, elapsed) == ~started /\ elapsed >= TimerDuration

\* raceTimerRuns without the test that the race is not finished
raceTimerRuns_AfterFinish(started, finished) == started

\* Update, line 275: the race timer is advanced in this tick
raceTimerRuns(started, finished) == started /\ ~finished

\* secondsLate counted from the beginning of the countdown
secondsLateAt_SinceCountdown(elapsed) == elapsed

\* Update, line 308: (elapsedTime - timerDuration).Seconds()
secondsLateAt(elapsed) == elapsed - TimerDuration

----------------------------------------------------------------------------
(* NewGame *)

\* the wind NewGame builds, lines 75-79
NewGameWind(biasAngle) ==
    NewOscillatingWind(NewGameLeftSpeed * Knot, NewGameRightSpeed * Knot,
                       WorldWidth * Scale, biasAngle)

NewGame ==
    [Boat |-> [Heading |-> 90, Speed |-> targetBeatSpeed,
               Pos |-> [X |-> boatStartX, Y |-> boatStartY]],
     isPaused |-> TRUE,
     prevBowPos |-> [X |-> boatStartX, Y |-> boatStartY]]

----------------------------------------------------------------------------
(* The Scoreboard and its backend requests.  A request that reached the     *)
(* backend is counted in inFlight until its callback is delivered; the      *)
(* leaderboard is kept by where its entries came from.                       *)

StateEnterName == "StateEnterName"
StateDisplayLeaderboard == "StateDisplayLeaderboard"
StateError == "StateError"

\* NewScoreboard
NewScoreboard ==
    [isVisible |-> FALSE, state |-> StateEnterName, playerName |-> <<>>,
     leaderboard |-> "empty", nameSubmitted |-> FALSE, submitError |-> "",
     isLoading |-> FALSE, cursorBlink |-> FALSE]

RequestKinds == {"submit", "load", "topCheck"}

NoRequests == [kind \in RequestKinds |-> 0]

NotInitialized == "Firebase not initialized"

RequestFailed == "request failed"

\* the characters a frame can type: one isValidNameChar accepts, and the blank
NameChars == {"a", " "}

InputChars == {<<>>} \cup {<<ch>> : ch \in NameChars}

ScoreboardInit(wasm) ==
    /\ Scoreboard = NewScoreboard
    /\ firebaseReady = FALSE
    /\ inFlight = NoRequests
    /\ IsWASM = wasm
    /\ hiddenByHide = FALSE

\* Show
Show(s) ==
    [s EXCEPT !.isVisible = TRUE, !.state = StateEnterName, !.playerName = <<>>,
              !.nameSubmitted = FALSE, !.submitError = "", !.isLoading = FALSE]

\* Hide
Hide(s) ==
    [s EXCEPT !.isVisible = FALSE, !.state = StateEnterName, !.playerName = <<>>,
              !.leaderboard = "empty", !.nameSubmitted = FALSE]

\* IsVisible
IsVisible(s) == s.isVisible

\* IsCapturingInput
IsCapturingInput(s) == s.isVisible /\ s.state = StateEnterName

\* the callback loadLeaderboard hands to GetLeaderboard
loadLeaderboardCallback(s, err) ==
    IF err # ""
    THEN [s EXCEPT !.isLoading = FALSE, !.submitError = err, !.state = StateError]
    ELSE [s EXCEPT !.isLoading = FALSE, !.leaderboard = "backend",
                   !.state = StateDisplayLeaderboard]

\* the callback ShowWithTopCheck hands to GetLeaderboard
topCheckCallback(s, err, isTop10) ==
    IF err # "" \/ isTop10
    THEN [s EXCEPT !.isLoading = FALSE, !.isVisible = TRUE, !.state = StateEnterName]
    ELSE [s EXCEPT !.isLoading = FALSE, !.isVisible = TRUE, !.leaderboard = "backend",
                   !.state = StateDisplayLeaderboard]

\* FirebaseClient.GetLeaderboard: found says that Initialize finds the
\* backend; the result is the scoreboard, isReady and the requests in flight
GetLeaderboard(s, ready, requests, found, kind) ==
    IF ready \/ found
    THEN <<s, TRUE, [requests EXCEPT ![kind] = @ + 1]>>
    ELSE <<IF kind = "load" THEN loadLeaderboardCallback(s, NotInitialized)
                            ELSE topCheckCallback(s, NotInitialized, FALSE),
           FALSE, requests>>

\* loadLeaderboard
loadLeaderboard(s, ready, requests, found, wasm) ==
    IF wasm
    THEN GetLeaderboard([s EXCEPT !.isLoading = TRUE], ready, requests, found, "load")
    ELSE <<[s EXCEPT !.leaderboard = "local", !.state = StateDisplayLeaderboard],
           ready, requests>>

\* ShowLeaderboardOnly
ShowLeaderboardOnly(s, ready, requests, found, wasm) ==
    loadLeaderboard([s EXCEPT !.isVisible = TRUE, !.playerName = <<>>,
                              !.nameSubmitted = FALSE, !.submitError = "",
                              !.isLoading = FALSE],
                    ready, requests, found, wasm)

\* ShowWithTopCheck
ShowWithTopCheck(s, ready, requests, found, wasm) ==
    LET cleared == [s EXCEPT !.playerName = <<>>, !.nameSubmitted = FALSE,
                             !.submitError = "", !.isLoading = FALSE]
    IN  IF wasm
        THEN GetLeaderboard([cleared EXCEPT !.isVisible = FALSE, !.isLoading = TRUE],
                            ready, requests, found, "topCheck")
        ELSE <<[cleared EXCEPT !.isVisible = TRUE, !.state = StateEnterName],
               ready, requests>>

\* strings.TrimSpace(name)
RECURSIVE TrimSpace(_)
TrimSpace(name) ==
    IF name = <<>> THEN name
    ELSE IF Head(name) = " " THEN TrimSpace(Tail(name))
    ELSE IF name[Len(name)] = " " THEN TrimSpace(SubSeq(name, 1, Len(name) - 1))
    ELSE name

\* the callback submitScore hands to SubmitScore
submitScoreCallback(s, ready, requests, found, wasm, success, err) ==
    IF success
    THEN loadLeaderboard([s EXCEPT !.isLoading = FALSE, !.nameSubmitted = TRUE],
                         ready, requests, found, wasm)
    ELSE <<[s EXCEPT !.isLoading = FALSE, !.submitError = err], ready, requests>>

\* FirebaseClient.SubmitScore
SubmitScore(s, ready, requests, found, wasm) ==
    IF ready \/ found
    THEN <<s, TRUE, [requests EXCEPT !["submit"] = @ + 1]>>
    ELSE submitScoreCallback(s, FALSE, requests, found, wasm, FALSE, NotInitialized)

\* submitScore
submitScore(s, ready, requests, found, wasm) ==
    IF TrimSpace(s.playerName) = <<>> THEN <<s, ready, requests>>
    ELSE IF wasm
    THEN SubmitScore([s EXCEPT !.isLoading = TRUE, !.submitError = ""],
                     ready, requests, found, wasm)
    ELSE <<[s EXCEPT !.nameSubmitted = TRUE, !.leaderboard = "local",
                     !.state = StateDisplayLeaderboard], ready, requests>>

\* the loop of updateNameInput over the characters typed in the frame
RECURSIVE appendInputChars(_, _)
appendInputChars(name, chars) ==
    IF chars = <<>> THEN name
    ELSE appendInputChars(IF Len(name) < MaxNameLen /\ Head(chars) \in NameChars
                          THEN Append(name, Head(chars)) ELSE name,
                          Tail(chars))

\* updateNameInput
updateNameInput(s, ready, requests, found, wasm, chars, backspace, enter, escape) ==
    LET typed  == appendInputChars(s.playerName, chars)
        erased == IF backspace /\ Len(typed) > 0
                  THEN SubSeq(typed, 1, Len(typed) - 1) ELSE typed
        named  == [s EXCEPT !.playerName = erased]
        entered == IF enter /\ Len(TrimSpace(erased)) > 0
                   THEN submitScore(named, ready, requests, found, wasm)
                   ELSE <<named, ready, requests>>
    IN  IF ~escape THEN entered
        ELSE IF wasm
        THEN loadLeaderboard(entered[1], entered[2], entered[3], found, wasm)
        ELSE <<Hide(entered[1]), entered[2], entered[3]>>

\* updateLeaderboardDisplay
updateLeaderboardDisplay(s, enter, escape) ==
    IF escape \/ enter THEN Hide(s) ELSE s

\* Update: blink says that the cursor has not blinked for half a second
Update(s, ready, requests, found, wasm, blink, chars, backspace, enter, escape) ==
    IF ~s.isVisible THEN <<s, ready, requests>>
    ELSE LET blinked == IF blink THEN [s EXCEPT !.cursorBlink = ~@] ELSE s
         IN  CASE blinked.state = StateEnterName ->
                      updateNameInput(blinked, ready, requests, found, wasm,
                                      chars, backspace, enter, escape)
               [] blinked.state = StateDisplayLeaderboard ->
                      <<updateLeaderboardDisplay(blinked, enter, escape),
                        ready, requests>>
               [] OTHER -> <<blinked, ready, requests>>

\* the state NewGame returns, for the draw biasAngle and the marks of the arena
GameInit(biasAngle, marks) ==
    /\ Boat = NewGame.Boat
    /\ ArenaMarks = marks
    /\ Wind = NewGameWind(biasAngle)
    /\ isPaused = NewGame.isPaused
    /\ sinceLastUpdate = 0
    /\ elapsedTime = 0
    /\ raceStarted = FALSE
    /\ raceTimer = 0
    /\ isOCS = FALSE
    /\ hasCrossedLine = FALSE
    /\ lineCrossingTime = 0
    /\ secondsLate = 0
    /\ vmgAtCrossing = 0
    /\ speedPercentage = 0
    /\ prevBowPos = NewGame.prevBowPos
    /\ markRoundingPhase1 = FALSE
    /\ markRoundingPhase2 = FALSE
    /\ markRoundingPhase3 = FALSE
    /\ markRounded = FALSE
    /\ raceFinished = FALSE
    /\ finishTime = 0
    /\ seenEastNorth = FALSE
    /\ seenEastThenWest = FALSE

Init == GameInit(BiasMin, Marks) /\ ScoreboardInit(TRUE)

raceVars == <<elapsedTime, raceStarted, raceTimer, isOCS, hasCrossedLine,
              lineCrossingTime, secondsLate, vmgAtCrossing, speedPercentage,
              prevBowPos, markRoundingPhase1,
              markRoundingPhase2, markRoundingPhase3, markRounded,
              raceFinished, finishTime, seenEastNorth, seenEastThenWest>>

----------------------------------------------------------------------------
(* GameState.Update, one action per way through it.  d is the wall clock *)
(* time since the previous frame and wind the OscillatingWind after it.     *)

\* Q pressed (WASM build): pause and return
UpdateQuit(d, wind) ==
    /\ sinceLastUpdate + d <= MaxPause
    /\ isPaused' = TRUE
    /\ sinceLastUpdate' = sinceLastUpdate + d
    /\ Wind' = wind
    /\ UNCHANGED <<Boat, ArenaMarks, raceVars>>
    /\ UNCHANGED scoreboardVars

\* a restart that resets field by field and forgets the mark rounding
UpdateRestart_Incremental(wind) ==
    /\ Boat' = NewGame.Boat
    /\ ArenaMarks' = Marks
    /\ Wind' = wind
    /\ isPaused' = FALSE
    /\ sinceLastUpdate' = 0
    /\ elapsedTime' = 0
    /\ raceStarted' = FALSE
    /\ raceTimer' = 0
    /\ isOCS' = FALSE
    /\ hasCrossedLine' = FALSE
    /\ lineCrossingTime' = 0
    /\ secondsLate' = 0
    /\ vmgAtCrossing' = 0
    /\ speedPercentage' = 0
    /\ prevBowPos' = NewGame.prevBowPos
    /\ raceFinished' = FALSE
    /\ finishTime' = 0
    /\ UNCHANGED <<markRoundingPhase1, markRoundingPhase2, markRoundingPhase3,
                   markRounded, seenEastNorth, seenEastThenWest>>
    /\ UNCHANGED scoreboardVars

\* R pressed: *g = *NewGame(), unpaused; wind is the new wind of NewGame
UpdateRestart(wind) ==
    /\ Boat' = NewGame.Boat
    /\ ArenaMarks' = Marks
    /\ Wind' = wind
    /\ isPaused' = FALSE
    /\ sinceLastUpdate' = 0
    /\ elapsedTime' = 0
    /\ raceStarted' = FALSE
    /\ raceTimer' = 0
    /\ isOCS' = FALSE
    /\ hasCrossedLine' = FALSE
    /\ lineCrossingTime' = 0
    /\ secondsLate' = 0
    /\ vmgAtCrossing' = 0
    /\ speedPercentage' = 0
    /\ prevBowPos' = NewGame.prevBowPos
    /\ markRoundingPhase1' = FALSE
    /\ markRoundingPhase2' = FALSE
    /\ markRoundingPhase3' = FALSE
    /\ markRounded' = FALSE
    /\ raceFinished' = FALSE
    /\ finishTime' = 0
    /\ seenEastNorth' = FALSE
    /\ seenEastThenWest' = FALSE
    /\ UNCHANGED scoreboardVars

\* a frame that ends paused: J key and pause toggle only
UpdatePaused(jump, toggle, d, wind) ==
    /\ togglePause(toggle, isPaused)
    /\ sinceLastUpdate + d <= MaxPause
    /\ isPaused' = TRUE
    /\ sinceLastUpdate' = sinceLastUpdate + d
    /\ Wind' = wind
    /\ elapsedTime' = jumpTimer(jump, raceStarted, elapsedTime)
    /\ UNCHANGED <<Boat, ArenaMarks, raceStarted, raceTimer, isOCS, hasCrossedLine,
                   lineCrossingTime, secondsLate, vmgAtCrossing, speedPercentage,
                   prevBowPos,
                   markRoundingPhase1, markRoundingPhase2, markRoundingPhase3,
                   markRounded, raceFinished, finishTime,
                   seenEastNorth, seenEastThenWest>>
    /\ UNCHANGED scoreboardVars

\* an unpaused tick
UpdateRunning(jump, toggle, d, left, right, pixelSpeed, track, wind) ==
    LET deltaTime == deltaTimeOf(isPaused, sinceLastUpdate, d)
        elapsed0 == jumpTimer(jump, raceStarted, elapsedTime)
        elapsed  == elapsed0 + deltaTime
        startNow == raceStartDue(raceStarted, elapsed)
        started  == raceStarted \/ startNow
        timer0   == IF startNow THEN 0 ELSE raceTimer
        timer    == IF raceTimerRuns(started, raceFinished) THEN timer0 + deltaTime ELSE timer0
        turned   == [Boat EXCEPT !.Heading = turnHeading(Boat.Heading, left, right)]
        moved    == BoatUpdate(turned, pixelSpeed)
        bowPos   == rulesBow(Boat, moved)
        ocs      == ocsUpdate(started, isOCS, bowPos)
        crossNow == started /\ lineCrossingDetected(hasCrossedLine, ocs, prevBowPos, bowPos)
        crossed  == hasCrossedLine \/ crossNow
        m0       == [p1 |-> markRoundingPhase1, p2 |-> markRoundingPhase2,
                     p3 |-> markRoundingPhase3, rounded |-> markRounded]
        roundingRuns == started /\ markRoundingActive(crossed, raceFinished)
        m        == IF roundingRuns THEN updateMarkRounding(ArenaMarks, m0, Boat.Pos) ELSE m0
        finishNow == /\ started
                     /\ finishCheckActive(crossed, m.rounded, raceFinished)
                     /\ checkFinishLineCrossing(prevBowPos, bowPos)
        north    == Boat.Pos.Y < upwindMarkY
        east     == north /\ Boat.Pos.X > upwindMarkX
        west     == north /\ Boat.Pos.X < upwindMarkX
    IN  /\ ~togglePause(toggle, isPaused)
        /\ elapsed <= MaxElapsed
        /\ InWindow(moved.Pos)
        /\ isPaused' = FALSE
        /\ sinceLastUpdate' = 0
        /\ Wind' = wind
        /\ elapsedTime' = elapsed
        /\ raceStarted' = started
        /\ raceTimer' = timer
        /\ isOCS' = ocs
        /\ hasCrossedLine' = crossed
        /\ lineCrossingTime' = IF crossNow THEN elapsed ELSE lineCrossingTime
        /\ secondsLate' = IF crossNow THEN secondsLateAt(elapsed) ELSE secondsLate
        /\ vmgAtCrossing' = IF crossNow THEN CalculateVMG(Boat, wind.currentDirection)
                            ELSE vmgAtCrossing
        /\ speedPercentage' = IF crossNow THEN SpeedPercentage(Boat) ELSE speedPercentage
        /\ markRoundingPhase1' = m.p1
        /\ markRoundingPhase2' = m.p2
        /\ markRoundingPhase3' = m.p3
        /\ markRounded' = m.rounded
        /\ raceFinished' = (raceFinished \/ finishNow)
        /\ finishTime' = IF finishNow THEN timer ELSE finishTime
        /\ prevBowPos' = bowPos
        /\ Boat' = moved
        /\ UNCHANGED ArenaMarks
        /\ UNCHANGED scoreboardVars
        /\ seenEastNorth' = (seenEastNorth \/ (track /\ roundingRuns /\ east))
        /\ seenEastThenWest' =
               (seenEastThenWest \/ (track /\ roundingRuns /\ seenEastNorth /\ west))

(* Spec: the race rules and the clock.  The wind keeps the state        *)
(* NewOscillatingWind gave it.  With the clock running the boat is kept *)
(* in the lane between the pin and the upwind mark, which holds a whole *)
(* race: start, rounding and finish.                                    *)

Quit == \E d \in DeltaTimes : UpdateQuit(d, Wind)

Restart == UpdateRestart(NewGameWind(Wind.initialBiasAngle))

Paused == \E jump, toggle \in BOOLEAN : \E d \in DeltaTimes :
              UpdatePaused(jump, toggle, d, Wind)

Tick == \E jump, toggle, left, right \in BOOLEAN :
            \E d \in DeltaTimes, pixelSpeed \in Speeds :
                /\ UpdateRunning(jump, toggle, d, left, right, pixelSpeed, FALSE, Wind)
                /\ InLane(Boat'.Pos)

Next == Quit \/ Restart \/ Paused \/ Tick

Spec == Init /\ [][Next]_vars

(* SpecAtOnce: the race rules over the whole window.  Its frames follow *)
(* each other at once, the countdown being run down by timer jumps, and *)
(* the game stays unpaused once it was restarted.                       *)

TickAtOnce == \E jump, toggle, left, right \in BOOLEAN : \E pixelSpeed \in Speeds :
                  UpdateRunning(jump, toggle, 0, left, right, pixelSpeed, FALSE, Wind)

NextAtOnce == Restart \/ TickAtOnce

SpecAtOnce == Init /\ [][NextAtOnce]_vars

(* SpecTracked: the same program with the history of the rounding checks *)
(* recorded.  Its frames follow each other at once, the countdown being   *)
(* run down by timer jumps.                                               *)

QuitAtOnce == UpdateQuit(0, Wind)

PausedAtOnce == \E jump, toggle \in BOOLEAN : UpdatePaused(jump, toggle, 0, Wind)

TickTracked == \E jump, toggle, left, right \in BOOLEAN : \E pixelSpeed \in Speeds :
                   UpdateRunning(jump, toggle, 0, left, right, pixelSpeed, TRUE, Wind)

NextTracked == QuitAtOnce \/ Restart \/ PausedAtOnce \/ TickTracked

SpecTracked == Init /\ [][NextTracked]_vars

(* SpecShortCourse: the race rules on an arena without the upwind mark, as *)
(* TestMarkRounding_WithInsufficientMarks builds it.                       *)

InitShortCourse == GameInit(BiasMin, SubSeq(Marks, 1, 2)) /\ ScoreboardInit(TRUE)

NextShortCourse == Quit \/ Paused \/ Tick

SpecShortCourse == InitShortCourse /\ [][NextShortCourse]_vars

(* SpecWind: the wind as well, sampled every FrameDelta seconds, with a *)
(* becalmed boat that is left alone.                                    *)

InitWind ==
    /\ \E biasAngle \in BiasAngles : GameInit(biasAngle, Marks)
    /\ ScoreboardInit(TRUE)

QuitWind == \E d \in FrameDeltas : UpdateQuit(d, WindAged(Wind, d))

RestartWind == \E biasAngle \in BiasAngles : UpdateRestart(NewGameWind(biasAngle))

PausedWind == \E jump, toggle \in BOOLEAN : \E d \in FrameDeltas :
                  UpdatePaused(jump, toggle, d, WindAged(Wind, d))

\* the random numbers are drawn only by a tick whose wind update starts a shift
TickWindAfter(d) ==
    \E jump, toggle \in BOOLEAN :
        LET drawn == ShiftEnds(WindAged(Wind, d))
        IN  \E angle \in (IF drawn THEN ShiftAngles ELSE {0}) :
                \E duration \in (IF drawn THEN ShiftDurations ELSE {0}) :
                    UpdateRunning(jump, toggle, d, FALSE, FALSE, 0, FALSE,
                                  UpdateWithElapsedTime(WindAged(Wind, d), angle, duration))

TickWind == \E d \in FrameDeltas : TickWindAfter(d)

NextWind == QuitWind \/ RestartWind \/ PausedWind \/ TickWind

SpecWind == InitWind /\ [][NextWind]_vars

\* an unpaused tick that follows an unpaused frame a positive time later
PositiveTick == ~isPaused /\ TickWindAfter(FrameDelta)

\* SpecWind with the ticks of positive delta kept coming while the game can
\* take them
SpecWindTicking == InitWind /\ [][NextWind]_vars /\ SF_vars(PositiveTick)

(* SpecSailing: the boat, the wind field, the polar and the dashboard on    *)
(* their own, as the tests of their packages drive them: a boat at rest is  *)
(* put into a wind field, Boat.Update is called, and the heading is set     *)
(* between two calls.  The race is left as NewGame built it.                *)

\* the headings a boat is put on, and the quarter turns add theirs
SailingHeadings == {0, 20, 30, 40, 45, 52, 60, 75, 76}

\* the wind fields, <<leftSpeed, rightSpeed>>: across the rows of the polar
\* table, beyond its two ends, that of NewGame, that of
\* TestOscillatingWind_Interpolation, and an even wind whose beat angle is 40
\* degrees
TableField == <<4 * Knot, 24 * Knot>>
WideField == <<0, 26 * Knot>>
NewGameField == <<NewGameLeftSpeed * Knot, NewGameRightSpeed * Knot>>
TestField == <<10 * Knot, 20 * Knot>>
EvenField == <<(128 * Knot) \div 15, (128 * Knot) \div 15>>

\* the X at which TableField blows with the speeds of the rows of the table
RowXs == {((windSpeeds[i] - 4) * WorldWidth * Scale) \div 20 : i \in 1..Len(windSpeeds)}

\* the X of the samples of the wind tests, two of them outside the world
TestXs == {0 - 100 * Scale, 500 * Scale, 1000 * Scale, 2000 * Scale, 3000 * Scale}

\* the wind at the peak of its bias cycle, ten seconds after it was built
WindAtBiasPeak(ow) == UpdateWithElapsedTime(WindAged(ow, BiasOutDuration), 0, 0)

\* the cases <<heading, x, y, field, biasAngle, atPeak>> a boat is put into
SailingCases ==
    (SailingHeadings \X RowXs \X {boatStartY} \X {TableField} \X {BiasMin} \X {FALSE})
    \cup (SailingHeadings \X {0, WorldWidth * Scale} \X {boatStartY}
             \X {WideField} \X {BiasMin} \X {FALSE})
    \cup (SailingHeadings \X {boatStartX} \X {boatStartY}
             \X {EvenField} \X {BiasMin} \X {FALSE})
    \cup (SailingHeadings \X {boatStartX} \X {boatStartY}
             \X {NewGameField} \X BiasAngles \X BOOLEAN)
    \cup ({0} \X TestXs \X {boatStartY, upwindMarkY}
             \X {TestField, NewGameField} \X {BiasMin} \X BOOLEAN)

InitSailing ==
    \E c \in SailingCases :
        LET ow == NewOscillatingWind(c[4][1], c[4][2], WorldWidth * Scale, c[5])
        IN  /\ Boat = [Heading |-> c[1], Speed |-> 0, Pos |-> [X |-> c[2], Y |-> c[3]]]
            /\ Wind = IF c[6] THEN WindAtBiasPeak(ow) ELSE ow
            /\ ArenaMarks = Marks
            /\ isPaused = NewGame.isPaused
            /\ sinceLastUpdate = 0
            /\ elapsedTime = 0
            /\ raceStarted = FALSE
            /\ raceTimer = 0
            /\ isOCS = FALSE
            /\ hasCrossedLine = FALSE
            /\ lineCrossingTime = 0
            /\ secondsLate = 0
            /\ vmgAtCrossing = 0
            /\ speedPercentage = 0
            /\ prevBowPos = NewGame.prevBowPos
            /\ markRoundingPhase1 = FALSE
            /\ markRoundingPhase2 = FALSE
            /\ markRoundingPhase3 = FALSE
            /\ markRounded = FALSE
            /\ raceFinished = FALSE
            /\ finishTime = 0
            /\ seenEastNorth = FALSE
            /\ seenEastThenWest = FALSE
            /\ ScoreboardInit(TRUE)

\* the window of SpecSailing: within SailReach of the place of a case
InSailingWindow(p) ==
    \E c \in SailingCases :
        /\ Abs(p.X - c[2]) <= SailReach
        /\ Abs(p.Y - c[3]) <= SailReach

\* Boat.Update
Sail ==
    /\ InSailingWindow(BoatUpdateInWind(Boat, Wind).Pos)
    /\ Boat' = BoatUpdateInWind(Boat, Wind)
    /\ UNCHANGED <<ArenaMarks, Wind, isPaused, sinceLastUpdate, raceVars>>
    /\ UNCHANGED scoreboardVars

\* the heading is set a quarter turn to the left or to the right
Steer ==
    \E left, right \in BOOLEAN :
        /\ left # right
        /\ Boat' = [Boat EXCEPT !.Heading = turnHeading(Boat.Heading, left, right)]
        /\ UNCHANGED <<ArenaMarks, Wind, isPaused, sinceLastUpdate, raceVars>>
        /\ UNCHANGED scoreboardVars

NextSailing == Sail \/ Steer

SpecSailing == InitSailing /\ [][NextSailing]_vars

(* SpecScoreboard: the scoreboard, its callers and the backend.  The game   *)
(* calls Show, ShowLeaderboardOnly, ShowWithTopCheck and Hide, every frame  *)
(* calls Update with the keys of the frame, and the backend delivers the    *)
(* callback of a request in flight at any later time, or never.  The race   *)
(* keeps the state NewGame gave it.                                         *)

InitScoreboard ==
    /\ GameInit(BiasMin, Marks)
    /\ \E wasm \in BOOLEAN : ScoreboardInit(wasm)

\* the sum of the requests in flight
Pending(requests) == requests["submit"] + requests["load"] + requests["topCheck"]

\* the scoreboard, isReady and the requests in flight become those of result;
\* hidden is what the step makes of hiddenByHide
ScoreboardBecomes(result, hidden) ==
    /\ Pending(result[3]) <= MaxInFlight
    /\ Scoreboard' = result[1]
    /\ firebaseReady' = result[2]
    /\ inFlight' = result[3]
    /\ hiddenByHide' = hidden
    /\ UNCHANGED <<IsWASM, Boat, ArenaMarks, Wind, isPaused, sinceLastUpdate, raceVars>>

ShowCalled == ScoreboardBecomes(<<Show(Scoreboard), firebaseReady, inFlight>>, FALSE)

ShowLeaderboardOnlyCalled ==
    \E found \in BOOLEAN :
        ScoreboardBecomes(ShowLeaderboardOnly(Scoreboard, firebaseReady, inFlight,
                                              found, IsWASM), FALSE)

ShowWithTopCheckCalled ==
    \E found \in BOOLEAN :
        ScoreboardBecomes(ShowWithTopCheck(Scoreboard, firebaseReady, inFlight,
                                           found, IsWASM), FALSE)

HideCalled == ScoreboardBecomes(<<Hide(Scoreboard), firebaseReady, inFlight>>, TRUE)

\* a frame in which ESC is pressed or not; only Hide ends the visibility of
\* a scoreboard within Update
UpdateWithEscape(escape) ==
    \E found, blink, backspace, enter \in BOOLEAN :
        \E chars \in InputChars :
            LET result == Update(Scoreboard, firebaseReady, inFlight, found, IsWASM,
                                 blink, chars, backspace, enter, escape)
            IN  ScoreboardBecomes(result,
                                  hiddenByHide \/ (Scoreboard.isVisible /\ ~result[1].isVisible))

UpdateCalled == \E escape \in BOOLEAN : UpdateWithEscape(escape)

\* the backend answers a SubmitScore
SubmitDelivered ==
    /\ inFlight["submit"] > 0
    /\ \E success \in BOOLEAN :
           ScoreboardBecomes(
               submitScoreCallback(Scoreboard, firebaseReady,
                                   [inFlight EXCEPT !["submit"] = @ - 1], TRUE, IsWASM,
                                   success, IF success THEN "" ELSE RequestFailed),
               hiddenByHide)

\* the backend answers the GetLeaderboard of loadLeaderboard
LoadDelivered ==
    /\ inFlight["load"] > 0
    /\ \E err \in {"", RequestFailed} :
           ScoreboardBecomes(<<loadLeaderboardCallback(Scoreboard, err), firebaseReady,
                               [inFlight EXCEPT !["load"] = @ - 1]>>, hiddenByHide)

\* the backend answers the GetLeaderboard of ShowWithTopCheck
TopCheckDelivered ==
    /\ inFlight["topCheck"] > 0
    /\ \E err \in {"", RequestFailed} :
           \E isTop10 \in BOOLEAN :
               ScoreboardBecomes(<<topCheckCallback(Scoreboard, err, isTop10),
                                   firebaseReady,
                                   [inFlight EXCEPT !["topCheck"] = @ - 1]>>,
                                 hiddenByHide)

\* the callback of a request is released before the backend answers (the
\* deferred Release of SubmitScore and GetLeaderboard): it is never run
CallbackReleased ==
    \E kind \in RequestKinds :
        /\ inFlight[kind] > 0
        /\ ScoreboardBecomes(<<Scoreboard, firebaseReady,
                               [inFlight EXCEPT ![kind] = @ - 1]>>, hiddenByHide)

NextScoreboard ==
    \/ ShowCalled
    \/ ShowLeaderboardOnlyCalled
    \/ ShowWithTopCheckCalled
    \/ HideCalled
    \/ UpdateCalled
    \/ SubmitDelivered
    \/ LoadDelivered
    \/ TopCheckDelivered
    \/ CallbackReleased

SpecScoreboard == InitScoreboard /\ [][NextScoreboard]_vars

----------------------------------------------------------------------------
(* Properties *)


\* the closed interval between the pin and the committee boat
BetweenPinAndCommittee(x) == pinX <= x /\ x <= committeeX

\* the step is a restart: a tick never leaves prevBowPos and the boat both at
\* the start position, the bow being further from the boat than a tick sails
Restarted == UpdateRestart(Wind')

\* a step of Update that ran the game logic: of the four ways through Update
\* only the restart and the unpaused tick end with isPaused false
UnpausedTick == ~isPaused' /\ ~Restarted

\* C1: in an unpaused tick hasCrossedLine turns from false to true exactly when
\* the race has started, the boat is not OCS, the previous bow sample is on the
\* pre-start side, the current one is on or past the line and its X is between
\* the pin and the committee boat; the X of the previous sample plays no part.
C1_LineCrossingIff ==
    [][UnpausedTick =>
        ((~hasCrossedLine /\ hasCrossedLine') <=>
         (/\ ~hasCrossedLine
          /\ raceStarted'
          /\ ~isOCS'
          /\ prevBowPos.Y > startLineY
          /\ prevBowPos'.Y <= startLineY
          /\ BetweenPinAndCommittee(prevBowPos'.X)))]_vars

\* C1 witness: the tick just run registered the crossing
C1_Witness ==
    /\ hasCrossedLine
    /\ ~isPaused
    /\ lineCrossingTime = elapsedTime
    /\ prevBowPos.Y <= startLineY
    /\ BetweenPinAndCommittee(prevBowPos.X)
    /\ ~markRoundingPhase1

\* C2: isOCS and hasCrossedLine are never both true, and a tick that straddles
\* the line within bounds while the boat is OCS registers no crossing.
C2_NoCrossingWhileOCS ==
    /\ [](~(isOCS /\ hasCrossedLine))
    /\ [][(/\ UnpausedTick
           /\ isOCS
           /\ prevBowPos.Y > startLineY
           /\ prevBowPos'.Y <= startLineY
           /\ BetweenPinAndCommittee(prevBowPos'.X))
          => (isOCS' /\ ~hasCrossedLine')]_vars

\* C2 witness: after the start, an OCS boat sampled on the course side within
\* bounds with no crossing registered
C2_Witness ==
    /\ raceStarted
    /\ isOCS
    /\ ~hasCrossedLine
    /\ prevBowPos.Y <= startLineY
    /\ BetweenPinAndCommittee(prevBowPos.X)

\* C3: isOCS turns from true to false only in a tick whose bow sample is on the
\* pre-start side within the X-bounds (or by a restart), before and after the
\* start alike; and a tick that samples the same bow position as the tick before
\* does not set isOCS again.
C3_OCSSticky ==
    [][/\ (isOCS /\ ~isOCS') =>
            (\/ Restarted
             \/ (/\ UnpausedTick
                 /\ prevBowPos'.Y > startLineY
                 /\ BetweenPinAndCommittee(prevBowPos'.X)))
       /\ (UnpausedTick /\ ~isOCS /\ prevBowPos' = prevBowPos) => ~isOCS']_vars

\* C3 witness: the boat is still OCS after the start, sampled on the pre-start
\* side outside the X-bounds
C3_Witness ==
    /\ raceStarted
    /\ isOCS
    /\ prevBowPos.Y > startLineY
    /\ ~BetweenPinAndCommittee(prevBowPos.X)

\* C4: in an unpaused tick before the start, a bow sample on or over the line
\* within the X-bounds sets isOCS; any other sample leaves a clear boat clear.
C4_OCSDetection ==
    [][(UnpausedTick /\ ~raceStarted') =>
        LET over == /\ prevBowPos'.Y <= startLineY
                    /\ BetweenPinAndCommittee(prevBowPos'.X)
        IN  /\ over => isOCS'
            /\ (~over /\ ~isOCS) => ~isOCS']_vars

\* C4 witness: before the start, the bow sampled exactly on the line within
\* bounds and the boat flagged OCS
C4_Witness ==
    /\ ~raceStarted
    /\ isOCS
    /\ prevBowPos.Y = startLineY
    /\ BetweenPinAndCommittee(prevBowPos.X)

\* C5: the race flags form a progression: finished implies rounded, rounded
\* implies crossed, any phase flag implies crossed, crossed implies started.
C5_FlagProgression ==
    /\ raceFinished => markRounded
    /\ markRounded => hasCrossedLine
    /\ (markRoundingPhase1 \/ markRoundingPhase2 \/ markRoundingPhase3) => hasCrossedLine
    /\ hasCrossedLine => raceStarted

\* C5 witness: a finished race
C5_Witness == raceFinished /\ markRounded /\ hasCrossedLine /\ raceStarted

\* C6: the phase flags are ordered: phase 2 implies phase 1, phase 3 implies
\* phases 1 and 2, and markRounded holds exactly when all three phases hold.
C6_PhaseOrdering ==
    /\ markRoundingPhase2 => markRoundingPhase1
    /\ markRoundingPhase3 => (markRoundingPhase1 /\ markRoundingPhase2)
    /\ markRounded <=>
           (markRoundingPhase1 /\ markRoundingPhase2 /\ markRoundingPhase3)

\* C6 witness: the mark is rounded and the boat is north and east of it again,
\* where an unfinished phase 2 would be reset
C6_Witness ==
    /\ markRounded
    /\ ~raceFinished
    /\ ~isPaused
    /\ prevBowPos = GetBowPosition(Boat)
    /\ Boat.Pos.Y < upwindMarkY
    /\ Boat.Pos.X > upwindMarkX

\* a tick that called updateMarkRounding
RoundingTick == UnpausedTick /\ hasCrossedLine' /\ ~raceFinished

\* C7: a rounding check with phase 2 set, phase 3 not, and the boat north and
\* east of the mark resets phase 2; one with phase 2 not set and the boat not
\* north of the mark leaves phase 2 false; phase 1 stays true in both; phase 1
\* is never reset within a race, nor is phase 2 once phase 3 is set.
C7_Phase2Reset ==
    [][/\ (/\ RoundingTick
           /\ markRoundingPhase2
           /\ ~markRoundingPhase3
           /\ Boat.Pos.Y < upwindMarkY
           /\ Boat.Pos.X > upwindMarkX)
          => (~markRoundingPhase2' /\ markRoundingPhase1')
       /\ (/\ RoundingTick
           /\ ~markRoundingPhase2
           /\ Boat.Pos.Y >= upwindMarkY)
          => (~markRoundingPhase2' /\ markRoundingPhase1' = markRoundingPhase1)
       /\ (markRoundingPhase1 /\ ~markRoundingPhase1') => Restarted
       /\ (markRoundingPhase3 /\ markRoundingPhase2 /\ ~markRoundingPhase2')
          => Restarted]_vars

\* C7 witness: phase 1 complete, phase 2 not, the last rounding check having
\* seen the boat north and east of the mark
C7_Witness ==
    /\ markRoundingPhase1
    /\ ~markRoundingPhase2
    /\ ~markRoundingPhase3
    /\ ~isPaused
    /\ Boat.Heading = 90
    /\ prevBowPos = GetBowPosition(Boat)
    /\ Boat.Pos.Y < upwindMarkY
    /\ Boat.Pos.X > upwindMarkX

\* C8: the mark counts as rounded only after the boat was seen north and east
\* of it and later north and west of it.
C8_RoundedOnlyEastToWest == markRounded => seenEastThenWest

\* C9: raceFinished turns true only in an unpaused tick with hasCrossedLine and
\* markRounded true, the previous bow sample on the course side, the current
\* one on or past the line within the X-bounds, and finishTime set to the race
\* timer of that tick; without markRounded no tick finishes the race.
C9_FinishOnlyAfterRounding ==
    [][/\ (~raceFinished /\ raceFinished') =>
            (/\ UnpausedTick
             /\ hasCrossedLine'
             /\ markRounded'
             /\ prevBowPos.Y < startLineY
             /\ prevBowPos'.Y >= startLineY
             /\ BetweenPinAndCommittee(prevBowPos'.X)
             /\ finishTime' = raceTimer')
       /\ ~markRounded' => ~raceFinished']_vars

\* C9 witness: the race just finished, with a non-zero finish time
C9_Witness ==
    /\ raceFinished
    /\ finishTime = raceTimer
    /\ finishTime > 0
    /\ prevBowPos.Y >= startLineY

\* the dashboard with the two ends of the line listed the other way round
SwappedDashboard == [LineStart |-> Dashboard.LineEnd, LineEnd |-> Dashboard.LineStart]

\* isWithinLineBounds is the closed interval test on X alone
LineBoundsExact ==
    \A x \in (pinX - 2)..(committeeX + 2) : \A y \in (lineY - 1)..(lineY + 1) :
        /\ isWithinLineBounds(Dashboard, [X |-> x, Y |-> y]) = BetweenPinAndCommittee(x)
        /\ isWithinLineBounds(SwappedDashboard, [X |-> x, Y |-> y]) = BetweenPinAndCommittee(x)

\* C10: a tick whose bow sample has its X outside the closed interval between
\* the pin and the committee boat sets neither hasCrossedLine nor raceFinished;
\* isWithinLineBounds holds exactly on that interval, both ends included,
\* whatever Y is and whichever end is listed first.
C10_OutOfBoundsNeverCrosses ==
    [][/\ LineBoundsExact
       /\ (UnpausedTick /\ ~BetweenPinAndCommittee(prevBowPos'.X))
          => (hasCrossedLine' = hasCrossedLine /\ raceFinished' = raceFinished)]_vars

\* C10 witness: after the start, a clear boat sampled on the course side outside
\* the X-bounds, no crossing registered
C10_Witness ==
    /\ raceStarted
    /\ ~isOCS
    /\ ~hasCrossedLine
    /\ prevBowPos.Y <= startLineY
    /\ ~BetweenPinAndCommittee(prevBowPos.X)

\* C11: once raceFinished is true, no step other than a restart changes isOCS,
\* hasCrossedLine, lineCrossingTime, secondsLate, speedPercentage, the three
\* phase flags, markRounded, raceFinished or finishTime, and raceTimer stays.
C11_FinishedIsTerminal ==
    [][(raceFinished /\ ~Restarted) =>
        /\ UNCHANGED <<isOCS, hasCrossedLine, lineCrossingTime, secondsLate,
                       speedPercentage, markRoundingPhase1, markRoundingPhase2,
                       markRoundingPhase3, markRounded, raceFinished, finishTime>>
        /\ raceTimer' = raceTimer]_vars

\* C11 witness: a race started and finished with the race timer at zero, and
\* the clock run on after the finish
C11_Witness ==
    /\ raceFinished
    /\ finishTime = 0
    /\ raceTimer = 0
    /\ elapsedTime > TimerDuration

\* C12: hasCrossedLine returns to false only by a restart, and
\* lineCrossingTime, secondsLate, vmgAtCrossing and speedPercentage change only
\* in the tick in which hasCrossedLine turns true (or by a restart).
C12_CrossingRecordedOnce ==
    [][/\ (hasCrossedLine /\ ~hasCrossedLine') => Restarted
       /\ (\/ lineCrossingTime' # lineCrossingTime
           \/ secondsLate' # secondsLate
           \/ vmgAtCrossing' # vmgAtCrossing
           \/ speedPercentage' # speedPercentage)
          => (\/ Restarted
              \/ (UnpausedTick /\ ~hasCrossedLine /\ hasCrossedLine'))]_vars

\* C12 witness: the line was crossed, the race finished south of the line, and
\* the bow is sampled on the course side within bounds again at a later time
C12_Witness ==
    /\ hasCrossedLine
    /\ raceFinished
    /\ ~isPaused
    /\ prevBowPos.Y < startLineY
    /\ BetweenPinAndCommittee(prevBowPos.X)
    /\ elapsedTime > lineCrossingTime

\* C13: whenever hasCrossedLine is true, secondsLate is lineCrossingTime minus
\* the timer duration and is not negative; lineCrossingTime is the elapsed time
\* of the tick that recorded the crossing.
C13_SecondsLate ==
    /\ [](hasCrossedLine =>
            (secondsLate = lineCrossingTime - TimerDuration /\ secondsLate >= 0))
    /\ [][(UnpausedTick /\ ~hasCrossedLine /\ hasCrossedLine')
          => lineCrossingTime' = elapsedTime']_vars

\* C13 witness: a crossing recorded after the start signal, the boat being late
C13_Witness ==
    /\ hasCrossedLine
    /\ secondsLate > 0
    /\ lineCrossingTime = TimerDuration + secondsLate

\* updateMarkRounding leaves every combination of flags as it is, wherever
\* the boat is, on an arena of two marks
NoOpOnShortCourse ==
    \A p1, p2, p3, rounded \in BOOLEAN :
        \A x \in XMin..XMax, y \in YMin..YMax :
            LET m == [p1 |-> p1, p2 |-> p2, p3 |-> p3, rounded |-> rounded]
            IN  updateMarkRounding(SubSeq(Marks, 1, 2), m, [X |-> x, Y |-> y]) = m

\* C14: on an arena of fewer than three marks updateMarkRounding changes no
\* flag, and no phase flag, markRounded or raceFinished is ever set.
C14_ShortCourseNoRounding ==
    /\ NoOpOnShortCourse
    /\ Len(ArenaMarks) < 3 =>
           /\ ~markRoundingPhase1
           /\ ~markRoundingPhase2
           /\ ~markRoundingPhase3
           /\ ~markRounded
           /\ ~raceFinished

\* C14 witness: on the arena of two marks, the line crossed and a tick run
\* with the boat north and west of where the upwind mark would be
C14_Witness ==
    /\ Len(ArenaMarks) < 3
    /\ hasCrossedLine
    /\ ~isPaused
    /\ prevBowPos = GetBowPosition(Boat)
    /\ Boat.Pos.Y <= upwindMarkY - Scale
    /\ Boat.Pos.X <= upwindMarkX - Scale

\* C15: a frame that ends paused changes neither raceTimer, the boat,
\* prevBowPos nor any race flag, and elapsedTime only by a timer jump; the
\* tick that resumes the game adds no time to elapsedTime and raceTimer; a tick
\* of the running game adds the time since the frame before it, the same to
\* both clocks while the race is on.
C15_PauseStopsTheClock ==
    [][/\ (isPaused' /\ ~Restarted) =>
            /\ UNCHANGED <<raceTimer, Boat, prevBowPos, raceStarted, isOCS,
                           hasCrossedLine, lineCrossingTime, secondsLate,
                           markRoundingPhase1, markRoundingPhase2,
                           markRoundingPhase3, markRounded, raceFinished,
                           finishTime>>
            /\ elapsedTime' \in {elapsedTime, jumpTimer(TRUE, raceStarted, elapsedTime)}
       /\ (isPaused /\ UnpausedTick) =>
            /\ elapsedTime' \in {elapsedTime, jumpTimer(TRUE, raceStarted, elapsedTime)}
            /\ raceTimer' = raceTimer
       /\ (~isPaused /\ UnpausedTick) =>
            /\ sinceLastUpdate = 0
            /\ \E d \in DeltaTimes :
                /\ elapsedTime' \in {elapsedTime + d,
                                     jumpTimer(TRUE, raceStarted, elapsedTime) + d}
                /\ (raceStarted /\ ~raceFinished) =>
                       (elapsedTime' = elapsedTime + d /\ raceTimer' = raceTimer + d)]_vars

\* C15 witness: the race is on, the line crossed, and the game has been paused
\* for a while
C15_Witness ==
    /\ isPaused
    /\ sinceLastUpdate > 0
    /\ raceStarted
    /\ hasCrossedLine
    /\ ~raceFinished
    /\ raceTimer > 0

\* C16: the tick that resumes the game finds the wind in the phase and with the
\* direction of the last tick before the pause.
C16_WindFrozenByPause ==
    [][(isPaused /\ UnpausedTick) =>
        /\ Wind'.shiftPhase = Wind.shiftPhase
        /\ Wind'.currentDirection = Wind.currentDirection]_vars

\* the step is a restart of Spec or of SpecWind
RestartStep == Restart \/ RestartWind

\* C17: after a restart raceStarted, isOCS, hasCrossedLine, the three phase
\* flags, markRounded and raceFinished are false, elapsedTime, raceTimer and
\* finishTime are zero, the boat and prevBowPos are at the start position, the
\* wind is at the beginning of its initial bias cycle and the game is unpaused.
C17_RestartReinitializes ==
    [][RestartStep =>
        /\ ~raceStarted' /\ ~isOCS' /\ ~hasCrossedLine'
        /\ ~markRoundingPhase1' /\ ~markRoundingPhase2' /\ ~markRoundingPhase3'
        /\ ~markRounded' /\ ~raceFinished'
        /\ elapsedTime' = 0 /\ raceTimer' = 0 /\ finishTime' = 0
        /\ Boat'.Pos = [X |-> boatStartX, Y |-> boatStartY]
        /\ Boat'.Heading = 90
        /\ prevBowPos' = [X |-> boatStartX, Y |-> boatStartY]
        /\ Wind'.isInInitialBiasCycle
        /\ Wind'.shiftPhase = 0
        /\ Wind'.sincePhaseStart = 0
        /\ Wind'.shiftAngle = Wind'.initialBiasAngle
        /\ Wind'.currentDirection = Wind'.medianDirection
        /\ ~isPaused']_vars

\* C17 witness: the state a restart leaves, which no tick leaves
C17_Witness ==
    /\ ~isPaused
    /\ elapsedTime = 0
    /\ Boat = NewGame.Boat
    /\ prevBowPos = NewGame.prevBowPos

\* C18: a timer jump changes elapsedTime only before the start, to ten seconds
\* more but not beyond the timer duration, and neither starts the race nor
\* changes any other race state; after the start a frame that ends paused
\* leaves elapsedTime alone and a tick adds the same time to elapsedTime and to
\* the running race timer.
C18_JumpOnlyBeforeStart ==
    [][/\ (isPaused' /\ ~Restarted /\ elapsedTime' # elapsedTime) =>
            /\ ~raceStarted
            /\ ~raceStarted'
            /\ elapsedTime' = Min(elapsedTime + JumpStep, TimerDuration)
            /\ elapsedTime' <= TimerDuration
            /\ UNCHANGED <<raceTimer, Boat, prevBowPos, isOCS, hasCrossedLine,
                           lineCrossingTime, secondsLate, vmgAtCrossing,
                           speedPercentage, markRoundingPhase1, markRoundingPhase2,
                           markRoundingPhase3, markRounded, raceFinished, finishTime>>
       /\ (raceStarted /\ isPaused' /\ ~Restarted) => elapsedTime' = elapsedTime
       /\ (raceStarted /\ ~raceFinished /\ UnpausedTick) =>
            elapsedTime' - elapsedTime = raceTimer' - raceTimer]_vars

\* C18 witness: the paused game jumped to the end of the countdown, and the
\* race has not started
C18_Witness ==
    /\ isPaused
    /\ ~raceStarted
    /\ elapsedTime = TimerDuration

\* the signed distance in degrees from the median direction, in [-180, 180)
OffMedian(ow) ==
    ((ow.currentDirection - ow.medianDirection + 180) % FullCircle) - 180

\* C19: the wind direction is in [0, 360) and within 15 degrees of the median
\* direction.
C19_DirectionBounded ==
    /\ Wind.currentDirection >= 0
    /\ Wind.currentDirection < FullCircle
    /\ OffMedian(Wind) >= -(BiasMin + BiasSpan)
    /\ OffMedian(Wind) <= BiasMin + BiasSpan

\* C19 witness: a shift to the left on its way out, the direction wrapped
\* around north
C19_Witness ==
    /\ Wind.shiftPhase = 0
    /\ Wind.currentDirection > FullCircle + Wind.shiftAngle
    /\ Wind.currentDirection < FullCircle

\* C20: the cycle NewOscillatingWind starts is the bias cycle: its angle is the
\* bias drawn, of magnitude in [5, 15), and its phases last 10, 25 and 10
\* seconds; the cycle after it and every later one has the drawn angle and
\* duration and phases of a third of the duration; the bias cycle starts again
\* only in a new wind.
C20_BiasCycleOnlyFirst ==
    /\ Wind.isInInitialBiasCycle
    /\ [](~Wind.isInitialBias)
    /\ [](Wind.isInInitialBiasCycle =>
            /\ Wind.shiftAngle = Wind.initialBiasAngle
            /\ \/ (Wind.shiftAngle >= BiasMin /\ Wind.shiftAngle < BiasMin + BiasSpan)
               \/ (-Wind.shiftAngle >= BiasMin /\ -Wind.shiftAngle < BiasMin + BiasSpan)
            /\ Wind.shiftDuration = BiasShiftDuration
            /\ Wind.phaseDuration = (CASE Wind.shiftPhase = 0 -> BiasOutDuration
                                       [] Wind.shiftPhase = 1 -> BiasPeakDuration
                                       [] Wind.shiftPhase = 2 -> BiasBackDuration))
    /\ [](~Wind.isInInitialBiasCycle =>
            /\ Wind.shiftAngle \in ShiftAngles
            /\ Wind.shiftDuration \in ShiftDurations
            /\ Wind.phaseDuration * 3 <= Wind.shiftDuration
            /\ Wind.shiftDuration < (Wind.phaseDuration + 1) * 3)
    /\ [][/\ (Wind.shiftPhase = 2 /\ Wind'.shiftPhase = 0 /\ ~Restarted)
             => ~Wind'.isInInitialBiasCycle
          /\ (~Wind.isInInitialBiasCycle /\ Wind'.isInInitialBiasCycle)
             => Restarted]_vars

\* C20 witness: a cycle after the bias cycle, in its last phase
C20_Witness ==
    /\ ~Wind.isInInitialBiasCycle
    /\ Wind.shiftPhase = 2
    /\ Wind.sincePhaseStart > 0

\* the step ends a BACK phase and starts the next cycle
CycleStarts == Wind.shiftPhase = 2 /\ Wind'.shiftPhase = 0 /\ ~Restarted

\* C21 as claimed: every cycle started on completion of a BACK phase has a
\* shiftDuration in [13, 25) seconds and a shiftAngle in [-10, 10) degrees.
C21_DurationBelow25 ==
    [][CycleStarts =>
        /\ Wind'.shiftDuration >= 13 /\ Wind'.shiftDuration < 25
        /\ Wind'.shiftAngle >= -10 /\ Wind'.shiftAngle < 10]_vars

\* C21: every cycle started on completion of a BACK phase has a shiftDuration
\* of 13 to 25 whole seconds, 25 included, and a shiftAngle in [-10, 10)
\* degrees.
C21_ShiftDrawnInRange ==
    [][CycleStarts =>
        /\ Wind'.shiftDuration >= 13 /\ Wind'.shiftDuration <= 25
        /\ Wind'.shiftAngle >= -10 /\ Wind'.shiftAngle < 10]_vars

\* C21 witness: a cycle of the longest duration, 25 seconds, after the bias cycle
C21_Witness ==
    /\ ~Wind.isInInitialBiasCycle
    /\ Wind.shiftDuration = 25
    /\ Wind.shiftPhase = 0

\* the wind speed sampled at the boat
sampledSpeed == GetWind(Wind, Boat.Pos)[2]

\* C22: the speed sampled at x from a wind field of positive width is
\* leftSpeed + (rightSpeed - leftSpeed) * clamp(x / worldWidth, 0, 1), the
\* quotient rounded down: leftSpeed at and left of 0, rightSpeed at and right of
\* worldWidth, linear in between, never outside the two speeds, whatever y and
\* the state of the oscillation; with 10 and 20 kt over 2000 m it is 12.5 kt at
\* 500 m, 15 kt at 1000 m and 20 kt at 2000 m.
C22_WindSpeedInterpolated ==
    LET vw == Wind.baseWind
        x == Boat.Pos.X
        across == (vw.RightSpeed - vw.LeftSpeed) * x
    IN  vw.WorldWidth > 0 =>
          /\ sampledSpeed >= Min(vw.LeftSpeed, vw.RightSpeed)
          /\ sampledSpeed <= Max(vw.LeftSpeed, vw.RightSpeed)
          /\ x <= 0 => sampledSpeed = vw.LeftSpeed
          /\ x >= vw.WorldWidth => sampledSpeed = vw.RightSpeed
          /\ (x >= 0 /\ x <= vw.WorldWidth) =>
                /\ vw.WorldWidth * (sampledSpeed - vw.LeftSpeed) <= across
                /\ across < vw.WorldWidth * (sampledSpeed - vw.LeftSpeed + 1)
          /\ (<<vw.LeftSpeed, vw.RightSpeed>> = TestField
                  /\ vw.WorldWidth = 2000 * Scale) =>
                /\ x = 500 * Scale => 2 * sampledSpeed = 25 * Knot
                /\ x = 1000 * Scale => sampledSpeed = 15 * Knot
                /\ x = 2000 * Scale => sampledSpeed = 20 * Knot
          /\ \A y \in {0, upwindMarkY, startLineY} :
                GetWind(Wind, [X |-> x, Y |-> y])[2] = sampledSpeed
          /\ GetWind(NewOscillatingWind(vw.LeftSpeed, vw.RightSpeed,
                                        vw.WorldWidth, 0), Boat.Pos)[2] = sampledSpeed

\* C22 witness: a boat sailing in the 12.5 kt it sampled a quarter of the way
\* across the field of 10 and 20 kt, at the latitude of the upwind mark, the
\* wind shifted to its bias
C22_Witness ==
    /\ <<Wind.baseWind.LeftSpeed, Wind.baseWind.RightSpeed>> = TestField
    /\ Boat.Pos.X = 500 * Scale
    /\ Boat.Pos.Y = upwindMarkY
    /\ Wind.shiftPhase = 1
    /\ Wind.baseWind.Direction # 0
    /\ 2 * sampledSpeed = 25 * Knot
    /\ Boat.Speed > 0

\* the wind direction sampled at the boat, and the angles of the boat to it
sampledDirection == GetWind(Wind, Boat.Pos)[1]
boatTWA == TrueWindAngle(Boat.Heading, sampledDirection)
boatAbsTWA == Abs(Tenths(boatTWA))

\* C23: the polar speed of the boat is that of the mirrored wind angle.
C23_PolarSymmetric ==
    /\ GetBoatSpeed(Tenths(boatTWA), sampledSpeed)
           = GetBoatSpeed(0 - Tenths(boatTWA), sampledSpeed)
    /\ GetBoatSpeed(Tenths(boatTWA), sampledSpeed)
           = GetBoatSpeed(boatAbsTWA, sampledSpeed)

\* C23 witness: a boat on port tack sailing at the speed of the starboard tack
C23_Witness ==
    /\ boatTWA < 0
    /\ Boat.Speed > 0
    /\ Boat.Speed = GetBoatSpeed(0 - Tenths(boatTWA), sampledSpeed)

\* the lower of the two rows of the table that bracket tws, counted from 0,
\* the first or the last pair of rows for a wind outside the table
bracketRow(tws) ==
    CHOOSE i \in 0..(Len(windSpeeds) - 2) :
        /\ i = 0 \/ tws > windSpeeds[i + 1] * Knot
        /\ i = Len(windSpeeds) - 2 \/ tws <= windSpeeds[i + 2] * Knot

\* the value at tws on the line through the values of the two bracketing rows
betweenRows(tws, lower, upper) ==
    LET i == bracketRow(tws)
        w1 == windSpeeds[i + 1] * Knot
        w2 == windSpeeds[i + 2] * Knot
    IN  lower + ((upper - lower) * (tws - w1)) \div (w2 - w1)

beatAngleOf(tws) ==
    betweenRows(tws, beatAngles[bracketRow(tws) + 1], beatAngles[bracketRow(tws) + 2])

beatVMGOf(tws) ==
    betweenRows(tws, beatVMG[bracketRow(tws) + 1] * CentiKnot,
                     beatVMG[bracketRow(tws) + 2] * CentiKnot)

speed52Of(tws) ==
    betweenRows(tws, speedTable[bracketRow(tws) + 1][1] * CentiKnot,
                     speedTable[bracketRow(tws) + 2][1] * CentiKnot)

\* C24: the polar speed is 0 below 30 degrees and, from 30 to 52 degrees, below
\* the beat angle interpolated between the two rows bracketing the wind speed;
\* at the beat angle it is the interpolated beat VMG, and from there to 52
\* degrees it lies on the line from the beat VMG to the table speed at 52
\* degrees.
C24_CloseHauled ==
    LET speed == GetBoatSpeed(Tenths(boatTWA), sampledSpeed)
        beatAngle == beatAngleOf(sampledSpeed)
        vmg == beatVMGOf(sampledSpeed)
        speed52 == speed52Of(sampledSpeed)
        run == Tenths(52) - beatAngle
        rise == (speed52 - vmg) * (boatAbsTWA - beatAngle)
    IN  /\ boatAbsTWA < Tenths(30) => speed = 0
        /\ (boatAbsTWA >= Tenths(30) /\ boatAbsTWA < Tenths(52)
                /\ boatAbsTWA < beatAngle) => speed = 0
        /\ (boatAbsTWA >= Tenths(30) /\ boatAbsTWA < Tenths(52)
                /\ boatAbsTWA = beatAngle) => speed = vmg
        /\ (boatAbsTWA >= Tenths(30) /\ boatAbsTWA < Tenths(52)
                /\ boatAbsTWA >= beatAngle) =>
              /\ run * (speed - vmg) <= rise
              /\ rise < run * (speed - vmg + 1)
        /\ boatAbsTWA = Tenths(52) => speed = speed52

\* C24 witness: a boat sailing at the beat VMG exactly on the beat angle, 40
\* degrees in a wind between two rows of the table
C24_Witness ==
    /\ boatAbsTWA = beatAngleOf(sampledSpeed)
    /\ sampledSpeed > windSpeeds[3] * Knot
    /\ sampledSpeed < windSpeeds[4] * Knot
    /\ Boat.Speed > 0
    /\ Boat.Speed = beatVMGOf(sampledSpeed)

\* C25: where the wind speed is one of the table and the wind angle one of the
\* table, the polar speed is the entry of the table.
C25_TableBreakpoints ==
    \A i \in 1..Len(windSpeeds) : \A j \in 1..Len(angles) :
        (sampledSpeed = windSpeeds[i] * Knot /\ boatAbsTWA = Tenths(angles[j])) =>
            GetBoatSpeed(Tenths(boatTWA), sampledSpeed) = speedTable[i][j] * CentiKnot

\* C25 witness: a boat on a beam reach in 10 kt of wind sailing at 7.13 kt
C25_Witness ==
    /\ sampledSpeed = 10 * Knot
    /\ boatAbsTWA = Tenths(90)
    /\ Boat.Speed = 713 * CentiKnot

\* C26: in a wind that is not negative the polar speed is not negative, in a
\* wind of less than 4 kt and of more than 24 kt too, where at an angle of the
\* table it lies on the line through the entries of the nearest two rows; the
\* speed of the boat is not negative either.
C26_SpeedNotNegative ==
    sampledSpeed >= 0 =>
        /\ GetBoatSpeed(Tenths(boatTWA), sampledSpeed) >= 0
        /\ Boat.Speed >= 0
        /\ \A j \in 1..Len(angles) :
              (/\ boatAbsTWA = Tenths(angles[j])
               /\ \/ sampledSpeed < windSpeeds[1] * Knot
                  \/ sampledSpeed > windSpeeds[Len(windSpeeds)] * Knot) =>
                  GetBoatSpeed(Tenths(boatTWA), sampledSpeed)
                      = betweenRows(sampledSpeed,
                                    speedTable[bracketRow(sampledSpeed) + 1][j] * CentiKnot,
                                    speedTable[bracketRow(sampledSpeed) + 2][j] * CentiKnot)

\* C26 witness: a boat sailing in a wind below the first row of the table
C26_Witness ==
    /\ sampledSpeed < windSpeeds[1] * Knot
    /\ boatAbsTWA = Tenths(90)
    /\ Boat.Speed > 0
    /\ Boat.Speed = GetBoatSpeed(Tenths(boatTWA), sampledSpeed)

\* the VMG of the candidate angles of the upwind and of the downwind scan
beatCandidates(tws) == {candidateVMG(angle, tws) : angle \in 30..90}
runCandidates(tws) == {candidateVMG(angle, tws) : angle \in 90..180}

\* the boat on the mirrored heading, on the other tack
mirroredBoat ==
    [Boat EXCEPT !.Heading = (2 * sampledDirection - Boat.Heading) % FullCircle]

\* C27 as claimed: with the wind at up to 90 degrees FindBestVMG is the greatest
\* of the VMG of the angles 30 to 90, and not negative; with the wind at more
\* than 90 degrees it is the least of the VMG of the angles 90 to 180, and not
\* positive; it is the same on the mirrored heading.
C27_UpwindUpTo90 ==
    LET best == FindBestVMG(Boat, Wind)
    IN  /\ Abs(boatTWA) <= 90 =>
              /\ best \in beatCandidates(sampledSpeed)
              /\ \A vmg \in beatCandidates(sampledSpeed) : best >= vmg
              /\ best >= 0
        /\ Abs(boatTWA) > 90 =>
              /\ best \in runCandidates(sampledSpeed)
              /\ \A vmg \in runCandidates(sampledSpeed) : best <= vmg
              /\ best <= 0
        /\ FindBestVMG(mirroredBoat, Wind) = best

\* C27: with the wind at less than 90 degrees FindBestVMG is the greatest of
\* the VMG of the angles 30 to 90, and not negative; with the wind at 90
\* degrees or more it is the least of the VMG of the angles 90 to 180, and not
\* positive; it is the same on the mirrored heading.
C27_BestVMGByMode ==
    LET best == FindBestVMG(Boat, Wind)
    IN  /\ Abs(boatTWA) < 90 =>
              /\ best \in beatCandidates(sampledSpeed)
              /\ \A vmg \in beatCandidates(sampledSpeed) : best >= vmg
              /\ best >= 0
        /\ Abs(boatTWA) >= 90 =>
              /\ best \in runCandidates(sampledSpeed)
              /\ \A vmg \in runCandidates(sampledSpeed) : best <= vmg
              /\ best <= 0
        /\ FindBestVMG(mirroredBoat, Wind) = best

\* C27 witness: a boat sailing on a beam reach, whose best VMG is one downwind
C27_Witness ==
    /\ Abs(boatTWA) = 90
    /\ Boat.Speed > 0
    /\ FindBestVMG(Boat, Wind) < 0

\* C28: a boat at rest at a sailable angle does not reach the polar speed in a
\* single Boat.Update, and a sailing boat turned into the no-go zone is not
\* stopped by a single Boat.Update.
C28_SpeedChangesGradually ==
    [][Sail =>
        /\ (Boat.Speed = 0 /\ polarSpeed(Boat, Wind) > 0) =>
              Boat'.Speed < polarSpeed(Boat, Wind)
        /\ (Boat.Speed > 0 /\ polarSpeed(Boat, Wind) = 0) =>
              Boat'.Speed > 0]_vars

C31_AdvanceIdempotent ==
    [][UnpausedTick =>
        \A angle \in ShiftAngles : \A duration \in ShiftDurations :
            UpdateWithElapsedTime(Wind', angle, duration) = Wind']_vars

\* C31 witness: a tick has just ended a shift and started the next one
C31_Witness ==
    /\ ~isPaused
    /\ ~Wind.isInInitialBiasCycle
    /\ Wind.shiftPhase = 0
    /\ Wind.sincePhaseStart = 0
    /\ Wind.currentDirection = Wind.medianDirection

\* C32: a step takes the wind from a phase to the same phase or to the next one
\* of OUT (0), PEAK (1), BACK (2), OUT, and never further, however long the
\* phase is overdue; in PEAK the direction is the median direction plus the
\* shift angle, and the step that ends BACK leaves the median direction.
C32_PhaseOrder ==
    /\ [][~Restarted =>
            /\ Wind'.shiftPhase \in {Wind.shiftPhase, (Wind.shiftPhase + 1) % 3}
            /\ (UnpausedTick /\ Wind.sincePhaseStart >= 2 * Wind.phaseDuration) =>
                  /\ Wind'.shiftPhase = (Wind.shiftPhase + 1) % 3
                  /\ Wind'.sincePhaseStart = 0
            /\ (Wind.shiftPhase = 2 /\ Wind'.shiftPhase = 0) =>
                  Wind'.currentDirection = NormalizeDirection(Wind.medianDirection)]_vars
    /\ [](Wind.shiftPhase = 1 =>
            Wind.currentDirection
                = NormalizeDirection(Wind.medianDirection + Wind.shiftAngle))

\* C32 witness: the wind at the peak of a shift to the left, the way out over
\* for more than the length of a phase when the tick came
C32_Witness ==
    /\ ~isPaused
    /\ ~Wind.isInInitialBiasCycle
    /\ Wind.shiftPhase = 1
    /\ Wind.shiftAngle < 0
    /\ Wind.sincePhaseStart = 0
    /\ Wind.currentDirection = FullCircle + Wind.shiftAngle

\* C34: isOCS turns from false to true only in a step with raceStarted false
\* before and after it; once the race has started a boat that is not OCS is not
\* flagged, wherever its bow is.
C34_NoOCSAfterStart ==
    [][/\ (~isOCS /\ isOCS') => (~raceStarted /\ ~raceStarted')
       /\ (raceStarted /\ ~isOCS /\ ~Restarted) => ~isOCS'
       /\ (UnpausedTick /\ ~isOCS /\ raceStarted') => ~isOCS']_vars

\* C34 witness: after the start the race rules looked at a bow over the line
\* between the pin and the committee boat, and the boat is not OCS
C34_Witness ==
    /\ raceStarted
    /\ ~isPaused
    /\ ~isOCS
    /\ prevBowPos.Y < startLineY
    /\ isWithinLineBounds(Dashboard, prevBowPos)

\* C35: an unpaused tick leaves raceStarted true exactly if it was true or the
\* tick takes elapsedTime to timerDuration or beyond; a frame that ends paused
\* leaves raceStarted alone; only a restart takes raceStarted back to false;
\* and where ticks of positive delta keep coming the race is started for good,
\* unless restarts keep coming or the game stays paused.
C35_RaceStarts ==
    /\ [][UnpausedTick =>
            (raceStarted' <=> (raceStarted \/ elapsedTime' >= TimerDuration))]_vars
    /\ [][(isPaused' /\ ~Restarted) => raceStarted' = raceStarted]_vars
    /\ [][(raceStarted /\ ~Restarted) => raceStarted']_vars
    /\ (<>[]raceStarted \/ []<><<Restarted>>_vars \/ <>[]isPaused)

\* C35 witness: the race started by the tick that took the clock to the end of
\* the countdown
C35_Witness ==
    /\ raceStarted
    /\ ~isPaused
    /\ elapsedTime = TimerDuration
    /\ raceTimer = FrameDelta

\* C36: the heading of the boat is in [0, 360); a tick turns it by one step to
\* the left, to the right, or not at all when neither or both keys are down,
\* around the circle, and no other step but a restart changes it.
C36_HeadingInCircle ==
    /\ [](Boat.Heading >= 0 /\ Boat.Heading < FullCircle)
    /\ [][UnpausedTick =>
            \E turn \in {-TurnStep, 0, TurnStep} :
                Boat'.Heading = (Boat.Heading + turn) % FullCircle]_vars
    /\ [][(isPaused' /\ ~Restarted) => Boat'.Heading = Boat.Heading]_vars

\* C36 witness: the boat was heading north when the tick began and its heading
\* is 270 now, turned to the left through north
C36_Witness ==
    /\ ~isPaused
    /\ Boat.Heading = FullCircle - TurnStep
    /\ prevBowPos.Y < Boat.Pos.Y
    /\ prevBowPos.X = Boat.Pos.X

\* the lower end of the pair of neighbouring angles of the table nearest to
\* absTWA, counted from 1: the pair that holds it, the last pair above 150
angleBracket(absTWA) ==
    IF absTWA > Tenths(angles[Len(angles)]) THEN Len(angles) - 1
    ELSE CHOOSE j \in 1..(Len(angles) - 1) :
             /\ absTWA <= Tenths(angles[j + 1])
             /\ j = 1 \/ absTWA > Tenths(angles[j])

\* the speed at absTWA on the line through the entries of row i at the two
\* angles of the pair j
onBracket(i, j, absTWA) ==
    speedTable[i][j] * CentiKnot
        + ((speedTable[i][j + 1] - speedTable[i][j]) * CentiKnot
               * (absTWA - Tenths(angles[j])))
              \div (Tenths(angles[j + 1]) - Tenths(angles[j]))

\* C37: from 52 degrees on the polar speed is interpolated, in each of the two
\* rows bracketing the wind speed, on the pair of table angles that holds the
\* wind angle, and above 150 degrees on the last pair, 135 and 150 degrees.
C37_NearestAngleBracket ==
    boatAbsTWA >= Tenths(angles[1]) =>
        GetBoatSpeed(Tenths(boatTWA), sampledSpeed)
            = betweenRows(sampledSpeed,
                  onBracket(bracketRow(sampledSpeed) + 1,
                            angleBracket(boatAbsTWA), boatAbsTWA),
                  onBracket(bracketRow(sampledSpeed) + 2,
                            angleBracket(boatAbsTWA), boatAbsTWA))

\* C38 as claimed: once the race has started raceTimer is at least elapsedTime
\* less timerDuration, and once it is finished finishTime is at least
\* secondsLate.
C38_TimerCoversAfterStart ==
    /\ raceStarted => raceTimer >= elapsedTime - TimerDuration
    /\ raceFinished => finishTime >= secondsLate

\* C38: from the start of the race until it is finished raceTimer is at least
\* elapsedTime less timerDuration; once the race is finished raceTimer stands
\* at finishTime, which is at least secondsLate.
C38_TimerCoversUntilFinish ==
    /\ (raceStarted /\ ~raceFinished) => raceTimer >= elapsedTime - TimerDuration
    /\ hasCrossedLine => raceTimer >= secondsLate
    /\ raceFinished =>
          /\ finishTime = raceTimer
          /\ finishTime >= secondsLate

\* C38 witness: a finished race whose clock has run on past the stopped race
\* timer
C38_Witness ==
    /\ raceFinished
    /\ finishTime >= secondsLate
    /\ raceTimer < elapsedTime - TimerDuration

\* C33: when the scoreboard is visible in StateError, a frame in which ESC is
\* pressed hides it.
C33_EscapeLeavesError ==
    [][(Scoreboard.isVisible /\ Scoreboard.state = StateError /\ UpdateWithEscape(TRUE))
        => ~Scoreboard'.isVisible]_vars

\* C39: while a submission is in flight and the scoreboard shows it as
\* loading, a frame of the name entry sends no further submission.
C39_OneSubmissionInFlight ==
    [][(/\ Scoreboard.isVisible
        /\ Scoreboard.state = StateEnterName
        /\ Scoreboard.isLoading
        /\ inFlight["submit"] > 0
        /\ UpdateCalled)
        => inFlight'["submit"] <= inFlight["submit"]]_vars

\* C40: from Hide to the next Show, ShowLeaderboardOnly or ShowWithTopCheck the
\* scoreboard is not visible and captures no input.
C40_HiddenUntilShown ==
    hiddenByHide => (~IsVisible(Scoreboard) /\ ~IsCapturingInput(Scoreboard))


====
